---------------------------- MODULE Spec2Model ----------------------------
(***************************************************************************)
(* A model of procrs (keeperofdakeys/Process-Query): the /proc record      *)
(* parsers and the PidIter directory scan.                                 *)
(*                                                                         *)
(* Text is modelled character by character: a Rust String / &str is a      *)
(* sequence of one-character strings, so that splitting, trimming and      *)
(* number parsing are computed the way the code computes them.             *)
(*                                                                         *)
(* Ten specifications share the module:                                    *)
(*   Spec        the PidIter scan over a directory listing (pid/mod.rs)    *)
(*   SpecLookup  a single lookup Pid::new(pid)             (pid/mod.rs)    *)
(*   SpecStat    PidStat::parse_string on a stat record    (pid/stat.rs)   *)
(*   SpecStatus  PidStatus::parse_string on a status record                *)
(*                                                         (pid/status.rs) *)
(*   SpecCmdline Pid::read_cmdline on a cmdline content    (pid/mod.rs)    *)
(*   SpecQuery   PidQuery::from_str on a query string      (pid/mod.rs)    *)
(*   SpecMatch   Pid::query on a record and a query        (pid/mod.rs)    *)
(*   SpecTid     the TidIter scan with thread listings     (pid/mod.rs)    *)
(*   SpecMem     Meminfo::new on a memory report       (meminfo/mod.rs)    *)
(*   SpecTree    the process tree of psq -T               (psq/main.rs)    *)
(***************************************************************************)
EXTENDS Integers, Sequences, FiniteSets, TLC

VARIABLES
    listing,    \* PidIter.dir_iter: the entries read_dir will produce, in order
    fs,         \* the files below each listed entry, as they are when read
    query,      \* PidIter.query
    pos,        \* how many entries of dir_iter have been consumed
    out,        \* the items next() has returned as Some(..), in order
    log,        \* one record per consumed entry: what proc_dir_filter did with it
    exhausted,  \* next() has returned None
    target,     \* SpecLookup: the /proc/[pid] files of the looked-up process
    lookup,     \* SpecLookup: the result of Pid::new
    statInput,  \* SpecStat: the text handed to PidStat::parse_string
    statResult, \* SpecStat: its result
    overflow_checks, \* the build panics on integer overflow (debug profile)
                     \* or wraps (release profile)
    statusInput,  \* SpecStatus: the status record handed to PidStatus::parse_string
    statusResult, \* SpecStatus: its result
    cmdlineInput,  \* SpecCmdline: the content of the cmdline file
    cmdlineResult, \* SpecCmdline: the result of Pid::read_cmdline
    queryInput,    \* SpecQuery: the string handed to PidQuery::from_str
    queryResult,   \* SpecQuery: its result
    matchInput,    \* SpecMatch: a process record and a query
    matchResult,   \* SpecMatch: what Pid::query returned for them
    taskdirs,      \* SpecTid: the task directory of each listed process
    task_iter,     \* SpecTid: TidIter.task_iter
    aborted,       \* SpecTid: the scan panicked
    tidLog,        \* SpecTid: one record per process handed to tasks_query
    memInput,      \* SpecMem: the lines of /proc/meminfo
    memResult,     \* SpecMem: the outcome of Meminfo::new
    treeInput,     \* SpecTree: the records handed to treeify_names
    treeResult     \* SpecTree: what treeify_names returned and what main did with it

vars == <<listing, fs, query, pos, out, log, exhausted,
          target, lookup, statInput, statResult, overflow_checks,
          statusInput, statusResult, cmdlineInput, cmdlineResult,
          queryInput, queryResult, matchInput, matchResult,
          taskdirs, task_iter, aborted, tidLog, memInput, memResult,
          treeInput, treeResult>>

scanVars == <<listing, fs, query, pos, out, log, exhausted>>
lookupVars == <<target, lookup>>
statVars == <<statInput, statResult>>
buildVars == <<overflow_checks>>
statusVars == <<statusInput, statusResult>>
cmdlineVars == <<cmdlineInput, cmdlineResult>>
decodeVars == <<queryInput, queryResult>>
matchVars == <<matchInput, matchResult>>
tidVars == <<taskdirs, task_iter, aborted, tidLog>>
memVars == <<memInput, memResult>>
treeVars == <<treeInput, treeResult>>

(***************************************************************************)
(* Bounds of the model.                                                    *)
(***************************************************************************)
MaxEntries == 2     \* longest directory listing
MaxNameLen == 3     \* longest freeform NAME placed between the parentheses
MaxUidTokens == 5   \* most tokens of a Uid or Gid value
MaxCmdlineLen == 4  \* longest content of a cmdline file
MaxThreads == 2     \* longest listing of a task directory

(***************************************************************************)
(* Characters and strings.                                                 *)
(***************************************************************************)
Digits == {"0", "1", "2", "3", "4", "5", "6", "7", "8", "9"}

DigitVal(c) ==
    CASE c = "0" -> 0 [] c = "1" -> 1 [] c = "2" -> 2 [] c = "3" -> 3
      [] c = "4" -> 4 [] c = "5" -> 5 [] c = "6" -> 6 [] c = "7" -> 7
      [] c = "8" -> 8 [] c = "9" -> 9

\* char::is_whitespace, for the characters the model uses
WhiteSpace == {" ", "\n", "\t"}

\* A byte that is not valid UTF-8 (String::from_utf8 rejects a buffer holding it)
BadByte == "\\xff"

NUL == "\\0"

RECURSIVE Concat(_)
\* the concatenation of a sequence of strings
Concat(ss) == IF ss = <<>> THEN <<>> ELSE Head(ss) \o Concat(Tail(ss))

RECURSIVE Join(_, _)
\* [String]::join(sep)
Join(ss, sep) ==
    IF ss = <<>> THEN <<>>
    ELSE IF Len(ss) = 1 THEN ss[1]
    ELSE ss[1] \o sep \o Join(Tail(ss), sep)

\* the positions of character c in s
Positions(s, c) == {i \in 1..Len(s) : s[i] = c}

Min(S) == CHOOSE x \in S : \A y \in S : x <= y
Max(S) == CHOOSE x \in S : \A y \in S : x >= y

\* str::splitn(2, c): at most two pieces, split at the FIRST c
SplitN2(s, c) ==
    IF Positions(s, c) = {} THEN <<s>>
    ELSE LET i == Min(Positions(s, c))
         IN  <<SubSeq(s, 1, i - 1), SubSeq(s, i + 1, Len(s))>>

\* str::rsplitn(2, c): at most two pieces, split at the LAST c, yielded
\* from the right: first the text after the last c, then the text before it
RSplitN2(s, c) ==
    IF Positions(s, c) = {} THEN <<s>>
    ELSE LET i == Max(Positions(s, c))
         IN  <<SubSeq(s, i + 1, Len(s)), SubSeq(s, 1, i - 1)>>

RECURSIVE Split(_, _)
\* str::split(c): every piece between occurrences of c, empty pieces kept;
\* always at least one piece
Split(s, c) ==
    IF Positions(s, c) = {} THEN <<s>>
    ELSE LET i == Min(Positions(s, c))
         IN  <<SubSeq(s, 1, i - 1)>> \o Split(SubSeq(s, i + 1, Len(s)), c)

\* str::trim: leading and trailing whitespace removed
Trim(s) ==
    LET keep == {i \in 1..Len(s) : s[i] \notin WhiteSpace}
    IN  IF keep = {} THEN <<>> ELSE SubSeq(s, Min(keep), Max(keep))

\* str::contains(q): q occurs in text as a contiguous substring
Contains(text, q) ==
    \E i \in 1..(Len(text) + 1) :
        /\ i + Len(q) - 1 <= Len(text)
        /\ SubSeq(text, i, i + Len(q) - 1) = q

\* String::from_utf8 succeeds
ValidUtf8(bytes) == \A i \in 1..Len(bytes) : bytes[i] # BadByte

(***************************************************************************)
(* Integer parsing: <integer type>::from_str.                              *)
(* The magnitude is compared with the type's limit digit by digit, so that *)
(* overflow is a parse failure as in Rust; the value itself is computed    *)
(* only for tokens that fit the type (TLC's integers are 32 bits wide, so  *)
(* the model's accepted tokens stay below 2^31).                           *)
(***************************************************************************)
IntTypes == {"i32", "u32", "i64", "u64"}

IsSigned(ty) == ty \in {"i32", "i64"}

\* the decimal digits of the largest value of the type
MaxDigits(ty) ==
    CASE ty = "i32" -> <<"2","1","4","7","4","8","3","6","4","7">>
      [] ty = "u32" -> <<"4","2","9","4","9","6","7","2","9","5">>
      [] ty = "i64" -> <<"9","2","2","3","3","7","2","0","3","6",
                         "8","5","4","7","7","5","8","0","7">>
      [] ty = "u64" -> <<"1","8","4","4","6","7","4","4","0","7",
                         "3","7","0","9","5","5","1","6","1","5">>

\* the decimal digits of the magnitude of the smallest value of a signed type
MinDigits(ty) ==
    CASE ty = "i32" -> <<"2","1","4","7","4","8","3","6","4","8">>
      [] ty = "i64" -> <<"9","2","2","3","3","7","2","0","3","6",
                         "8","5","4","7","7","5","8","0","8">>

RECURSIVE StripZeros(_)
StripZeros(ds) ==
    IF Len(ds) > 1 /\ Head(ds) = "0" THEN StripZeros(Tail(ds)) ELSE ds

RECURSIVE DigitsLeq(_, _)
\* a <= b for two digit strings of the same length
DigitsLeq(a, b) ==
    IF a = <<>> THEN TRUE
    ELSE IF DigitVal(Head(a)) < DigitVal(Head(b)) THEN TRUE
    ELSE IF DigitVal(Head(a)) > DigitVal(Head(b)) THEN FALSE
    ELSE DigitsLeq(Tail(a), Tail(b))

\* the magnitude ds (no leading zeros) does not exceed lim
FitsIn(ds, lim) ==
    \/ Len(ds) < Len(lim)
    \/ Len(ds) = Len(lim) /\ DigitsLeq(ds, lim)

RECURSIVE DigitsValue(_, _)
DigitsValue(ds, acc) ==
    IF ds = <<>> THEN acc ELSE DigitsValue(Tail(ds), acc * 10 + DigitVal(Head(ds)))

ParseFail == [ok |-> FALSE]
ParseOk(n) == [ok |-> TRUE, val |-> n]

\* core::num::from_str_radix(tok, 10) for type ty
ParseInt(tok, ty) ==
    IF tok = <<>> THEN ParseFail
    ELSE
      LET neg    == Head(tok) = "-" /\ IsSigned(ty)
          signed == Head(tok) = "+" \/ neg
          ds     == IF signed THEN Tail(tok) ELSE tok
      IN  IF ds = <<>> THEN ParseFail
          ELSE IF \E i \in 1..Len(ds) : ds[i] \notin Digits THEN ParseFail
          ELSE LET mag == StripZeros(ds)
               IN  IF neg
                   THEN IF FitsIn(mag, MinDigits(ty))
                        THEN ParseOk(0 - DigitsValue(mag, 0)) ELSE ParseFail
                   ELSE IF FitsIn(mag, MaxDigits(ty))
                        THEN ParseOk(DigitsValue(mag, 0)) ELSE ParseFail

(***************************************************************************)
(* Errors (error.rs).  ProcError's equality compares operation, file and   *)
(* more; the inner cause is not part of it.                                *)
(***************************************************************************)
ProcOpers == {"Opening", "Reading", "Parsing", "ParsingField"}

NoMore == "<None>"

ProcError(operation, file, more) ==
    [operation |-> operation, file |-> file, more |-> more]

Err(operation, file, more) ==
    [ok |-> FALSE, err |-> ProcError(operation, file, more)]

Ok(v) == [ok |-> TRUE, val |-> v]

\* ProcOper::is_hard as it would be if only ParsingField were hard
OperIsHard_field(operation) ==
    CASE operation = "ParsingField" -> TRUE
      [] OTHER -> FALSE

\* ProcOper::is_hard
OperIsHard(operation) ==
    CASE operation = "Opening" -> FALSE
      [] operation = "Reading" -> FALSE
      [] OTHER -> TRUE

\* ProcError::is_hard
IsHard(e) == OperIsHard(e.operation)

(***************************************************************************)
(* Option values and iterators over split pieces.                          *)
(***************************************************************************)
None == [some |-> FALSE]
Some(v) == [some |-> TRUE, val |-> v]

\* the i-th call of Iterator::next on the pieces of a split
NthNext(pieces, i) == IF i <= Len(pieces) THEN Some(pieces[i]) ELSE None

(***************************************************************************)
(* The stat record (pid/stat.rs).                                          *)
(***************************************************************************)
\* the numeric fields after the state that PidStat requires, in file order
StatNumFields == <<
    [name |-> "ppid", ty |-> "i32"],      [name |-> "pgrp", ty |-> "i32"],
    [name |-> "session", ty |-> "i32"],   [name |-> "tty_nr", ty |-> "i32"],
    [name |-> "tpgid", ty |-> "i32"],     [name |-> "flags", ty |-> "u32"],
    [name |-> "minflt", ty |-> "u64"],    [name |-> "cminflt", ty |-> "u64"],
    [name |-> "majflt", ty |-> "u64"],    [name |-> "cmajflt", ty |-> "u64"],
    [name |-> "utime", ty |-> "u64"],     [name |-> "stime", ty |-> "u64"],
    [name |-> "cutime", ty |-> "i64"],    [name |-> "cstime", ty |-> "i64"],
    [name |-> "priority", ty |-> "i64"],  [name |-> "nice", ty |-> "i64"],
    [name |-> "num_threads", ty |-> "i64"],
    [name |-> "itrealvalue", ty |-> "i64"],
    [name |-> "starttime", ty |-> "u64"], [name |-> "vsize", ty |-> "u64"],
    [name |-> "rss", ty |-> "i64"],       [name |-> "rsslim", ty |-> "u64"],
    [name |-> "startcode", ty |-> "u64"], [name |-> "endcode", ty |-> "u64"],
    [name |-> "startstack", ty |-> "u64"],
    [name |-> "kstkesp", ty |-> "u64"],   [name |-> "kstkeip", ty |-> "u64"],
    [name |-> "signal", ty |-> "u64"],    [name |-> "blocked", ty |-> "u64"],
    [name |-> "sigignore", ty |-> "u64"], [name |-> "sigcatch", ty |-> "u64"],
    [name |-> "wchan", ty |-> "u64"],     [name |-> "nswap", ty |-> "u64"],
    [name |-> "cnswap", ty |-> "u64"] >>

\* the fields after cnswap, each an Option in PidStat, in file order
StatOptFields == <<
    [name |-> "exit_signal", ty |-> "i32"],
    [name |-> "processor", ty |-> "i32"],
    [name |-> "rt_priority", ty |-> "u32"],
    [name |-> "policy", ty |-> "u32"],
    [name |-> "delayacct_blkio_ticks", ty |-> "u64"],
    [name |-> "guest_time", ty |-> "u64"],
    [name |-> "cguest_time", ty |-> "i64"],
    [name |-> "start_data", ty |-> "u64"],
    [name |-> "end_data", ty |-> "u64"],
    [name |-> "start_brk", ty |-> "u64"],
    [name |-> "arg_start", ty |-> "u64"],
    [name |-> "arg_end", ty |-> "u64"],
    [name |-> "env_start", ty |-> "u64"],
    [name |-> "env_end", ty |-> "u64"],
    [name |-> "exit_code", ty |-> "i32"] >>

NumMandatory == Len(StatNumFields)
NumOptional == Len(StatOptFields)

\* get_procstate as it would be without the arm "X" | "x"
get_procstate_nodead(state) ==
    CASE state = <<"R">> -> Some("Running")
      [] state = <<"S">> -> Some("Sleeping")
      [] state = <<"D">> -> Some("Waiting")
      [] state = <<"Z">> -> Some("Zombie")
      [] state = <<"T">> -> Some("Stopped")
      [] state = <<"t">> -> Some("Tracing")
      [] state = <<"K">> -> Some("Wakekill")
      [] state = <<"W">> -> Some("Waking")
      [] state = <<"P">> -> Some("Parked")
      [] OTHER -> None

\* get_procstate
get_procstate(state) ==
    CASE state = <<"R">> -> Some("Running")
      [] state = <<"S">> -> Some("Sleeping")
      [] state = <<"D">> -> Some("Waiting")
      [] state = <<"Z">> -> Some("Zombie")
      [] state = <<"T">> -> Some("Stopped")
      [] state = <<"t">> -> Some("Tracing")
      [] state = <<"X">> \/ state = <<"x">> -> Some("Dead")
      [] state = <<"K">> -> Some("Wakekill")
      [] state = <<"W">> -> Some("Waking")
      [] state = <<"P">> -> Some("Parked")
      [] OTHER -> None

\* the macro stat_parse_num!, for an item of type Option<&str> and the
\* integer type of the field it fills
stat_parse_num(item, ty) ==
    IF ~item.some
    THEN Err("ParsingField", "PidStat", "missing field")
    ELSE LET r == ParseInt(item.val, ty)
         IN  IF r.ok THEN Ok(r.val)
             ELSE Err("ParsingField", "PidStat", "parsing number")

\* stat_parse_opt_num! as it would be if an unparsable optional field were
\* treated like an absent one
stat_parse_opt_num_lenient(item, ty) ==
    IF item.some /\ ParseInt(item.val, ty).ok
    THEN Ok(Some(ParseInt(item.val, ty).val))
    ELSE Ok(None)

\* the macro stat_parse_opt_num!
stat_parse_opt_num(item, ty) ==
    IF item.some
    THEN LET r == stat_parse_num(Some(item.val), ty)
         IN  IF r.ok THEN Ok(Some(r.val)) ELSE r
    ELSE Ok(None)

\* the text the record is split into around the parentheses
\* (the two splits at the head of PidStat::parse_string)
StatOuterSplit(bytes) == SplitN2(bytes, "(")

\* the inner split as it would be if it stopped at the first ')'
StatInnerSplit_first(rest) ==
    LET p == SplitN2(rest, ")")
    IN  IF Len(p) = 2 THEN <<p[2], p[1]>> ELSE p

\* the inner split as it would be if a missing ')' gave an empty name
StatInnerSplit_padded(rest) ==
    IF Len(RSplitN2(rest, ")")) = 1 THEN <<rest, <<>>>> ELSE RSplitN2(rest, ")")

StatInnerSplit(rest) == RSplitN2(rest, ")")

\* PidStat::parse_string
parse_string(bytes) ==
    LET bytes_split == StatOuterSplit(bytes)
    IN
    IF ~NthNext(bytes_split, 1).some
    THEN Err("Parsing", "PidStat", "finding opening paren")
    ELSE IF ~NthNext(bytes_split, 2).some
    THEN Err("Parsing", "PidStat", "finding closing paren")
    ELSE
    LET prefix == bytes_split[1]
        inner  == StatInnerSplit(bytes_split[2])
    IN
    IF ~NthNext(inner, 1).some
    THEN Err("Parsing", "PidStat", "splitting file")
    ELSE IF ~NthNext(inner, 2).some
    THEN Err("Parsing", "PidStat", "splitting comm")
    ELSE
    LET suffix    == Trim(inner[1])
        prog_name == inner[2]
        split     == Split(suffix, " ")
        pid       == stat_parse_num(NthNext(Split(prefix, " "), 1), "i32")
        state     == IF NthNext(split, 1).some
                     THEN get_procstate(split[1]) ELSE None
        \* the struct literal evaluates its fields in the order written:
        \* the j-th mandatory number is the (j+1)-th piece of the suffix
        num(j)    == stat_parse_num(NthNext(split, 1 + j), StatNumFields[j].ty)
        opt(k)    == stat_parse_opt_num(NthNext(split, 1 + NumMandatory + k),
                                        StatOptFields[k].ty)
        badNum    == {j \in 1..NumMandatory : ~num(j).ok}
        badOpt    == {k \in 1..NumOptional : ~opt(k).ok}
        numName   == {StatNumFields[j].name : j \in 1..NumMandatory}
        optName   == {StatOptFields[k].name : k \in 1..NumOptional}
        numAt(n)  == CHOOSE j \in 1..NumMandatory : StatNumFields[j].name = n
        optAt(n)  == CHOOSE k \in 1..NumOptional : StatOptFields[k].name = n
    IN
    IF ~pid.ok THEN pid
    ELSE IF ~state.some THEN Err("Parsing", "PidStat", "parsing process state")
    ELSE IF badNum # {} THEN num(Min(badNum))
    ELSE IF badOpt # {} THEN opt(Min(badOpt))
    ELSE Ok(  [pid |-> pid.val, comm |-> prog_name, state |-> state.val]
           @@ [n \in numName |-> num(numAt(n)).val]
           @@ [n \in optName |-> opt(optAt(n)).val] )

(***************************************************************************)
(* The status record (pid/status.rs).                                      *)
(***************************************************************************)
\* the keys PidStatus::parse_string dispatches on, in the order of its
\* match, with the way each value is parsed
StatusKeys == <<
    [name |-> "Name", kind |-> "string",
     key |-> <<"N", "a", "m", "e">>],
    [name |-> "Tgid", kind |-> "i32",
     key |-> <<"T", "g", "i", "d">>],
    [name |-> "Pid", kind |-> "i32",
     key |-> <<"P", "i", "d">>],
    [name |-> "PPid", kind |-> "i32",
     key |-> <<"P", "P", "i", "d">>],
    [name |-> "TracerPid", kind |-> "i32",
     key |-> <<"T", "r", "a", "c", "e", "r", "P", "i", "d">>],
    [name |-> "Uid", kind |-> "uids",
     key |-> <<"U", "i", "d">>],
    [name |-> "Gid", kind |-> "uids",
     key |-> <<"G", "i", "d">>],
    [name |-> "FDSize", kind |-> "u32",
     key |-> <<"F", "D", "S", "i", "z", "e">>],
    [name |-> "VmPeak", kind |-> "mem",
     key |-> <<"V", "m", "P", "e", "a", "k">>],
    [name |-> "VmSize", kind |-> "mem",
     key |-> <<"V", "m", "S", "i", "z", "e">>],
    [name |-> "VmLck", kind |-> "mem",
     key |-> <<"V", "m", "L", "c", "k">>],
    [name |-> "VmPin", kind |-> "mem",
     key |-> <<"V", "m", "P", "i", "n">>],
    [name |-> "VmHWM", kind |-> "mem",
     key |-> <<"V", "m", "H", "W", "M">>],
    [name |-> "VmRSS", kind |-> "mem",
     key |-> <<"V", "m", "R", "S", "S">>],
    [name |-> "VmData", kind |-> "mem",
     key |-> <<"V", "m", "D", "a", "t", "a">>],
    [name |-> "VmStk", kind |-> "mem",
     key |-> <<"V", "m", "S", "t", "k">>],
    [name |-> "VmExe", kind |-> "mem",
     key |-> <<"V", "m", "E", "x", "e">>],
    [name |-> "VmLib", kind |-> "mem",
     key |-> <<"V", "m", "L", "i", "b">>],
    [name |-> "VmPTE", kind |-> "mem",
     key |-> <<"V", "m", "P", "T", "E">>],
    [name |-> "VmPMD", kind |-> "mem",
     key |-> <<"V", "m", "P", "M", "D">>],
    [name |-> "VmSwap", kind |-> "mem",
     key |-> <<"V", "m", "S", "w", "a", "p">>],
    [name |-> "Threads", kind |-> "u32",
     key |-> <<"T", "h", "r", "e", "a", "d", "s">>] >>

StatusKeyNames == {StatusKeys[i].name : i \in 1..Len(StatusKeys)}

\* the keys unwrap! is applied to when the struct is built, in that order
StatusUnwrapped ==
    <<"Name", "Tgid", "Pid", "PPid", "TracerPid", "Uid", "Gid", "FDSize", "Threads">>

RECURSIVE SplitWhitespace(_)
\* str::split_whitespace: the maximal runs of non-whitespace characters
SplitWhitespace(s) ==
    LET t == Trim(s)
        ws == {i \in 1..Len(t) : t[i] \in WhiteSpace}
    IN  IF t = <<>> THEN <<>>
        ELSE IF ws = {} THEN <<t>>
        ELSE <<SubSeq(t, 1, Min(ws) - 1)>>
                 \o SplitWhitespace(SubSeq(t, Min(ws) + 1, Len(t)))

\* UidsOf as it would be if tokens beyond the fourth were ignored
UidsOf_first4(uids) ==
    IF \E i \in 1..Len(uids) : ~uids[i].ok
    THEN Err("ParsingField", "PidStatus", "parsing uid")
    ELSE IF Len(uids) < 4
    THEN Err("ParsingField", "PidStatus", "missing uids")
    ELSE Ok(<<uids[1].val, uids[2].val, uids[3].val, uids[4].val>>)

\* the end of parse_uids, on the parsed tokens
UidsOf(uids) ==
    IF \E i \in 1..Len(uids) : ~uids[i].ok
    THEN Err("ParsingField", "PidStatus", "parsing uid")
    ELSE IF Len(uids) # 4
    THEN Err("ParsingField", "PidStatus", "missing uids")
    ELSE Ok(<<uids[1].val, uids[2].val, uids[3].val, uids[4].val>>)

UidTokens(toks) == UidsOf([i \in 1..Len(toks) |-> ParseInt(toks[i], "u32")])

\* parse_uids
parse_uids(uid_str) ==
    UidTokens(SelectSeq(SplitWhitespace(uid_str), LAMBDA t : t # <<>>))

kB == <<" ", "k", "B">>

RECURSIVE TrimRightMatches(_, _)
\* str::trim_right_matches(pat): pat removed from the end as often as it occurs
TrimRightMatches(s, pat) ==
    IF Len(s) >= Len(pat) /\ SubSeq(s, Len(s) - Len(pat) + 1, Len(s)) = pat
    THEN TrimRightMatches(SubSeq(s, 1, Len(s) - Len(pat)), pat)
    ELSE s

\* A MemSize (u64) is held as four 16-bit limbs, the least significant
\* first, so that the whole 64-bit range and the carry out of it exist.
LimbBase == 2^16
NumLimbs == 64 \div 16
U64Zero == [i \in 1..NumLimbs |-> 0]

RECURSIVE LimbsMulAdd(_, _, _, _, _)
\* the limbs l times m plus carry, from limb i on: the low 64 bits of the
\* product and the carry out of them
LimbsMulAdd(l, i, m, carry, acc) ==
    IF i > Len(l) THEN [limbs |-> acc, carry |-> carry]
    ELSE LimbsMulAdd(l, i + 1, m, (l[i] * m + carry) \div LimbBase,
                     Append(acc, (l[i] * m + carry) % LimbBase))

RECURSIVE U64FromDigits(_, _)
\* the u64 written by the digits ds (which fit the type)
U64FromDigits(ds, acc) ==
    IF ds = <<>> THEN acc
    ELSE U64FromDigits(Tail(ds),
                       LimbsMulAdd(acc, 1, 10, DigitVal(Head(ds)), <<>>).limbs)

ParseU64Digits(ds) ==
    IF ds = <<>> \/ (\E i \in 1..Len(ds) : ds[i] \notin Digits) THEN ParseFail
    ELSE IF FitsIn(StripZeros(ds), MaxDigits("u64"))
    THEN ParseOk(U64FromDigits(StripZeros(ds), U64Zero))
    ELSE ParseFail

\* str::parse::<MemSize>(): as ParseInt for u64, the value in limbs
ParseU64(tok) ==
    IF tok = <<>> THEN ParseFail
    ELSE ParseU64Digits(IF Head(tok) = "+" THEN Tail(tok) ELSE tok)

\* an arithmetic overflow under overflow checks: the thread panics
ParsePanic == [ok |-> FALSE, panic |-> TRUE]

\* n * 1024 on a u64 whose product is p: on overflow the build either
\* panics (checks) or keeps the low 64 bits
MulResult(p, checks) ==
    IF p.carry = 0 THEN ParseOk(p.limbs)
    ELSE IF checks THEN ParsePanic
    ELSE ParseOk(p.limbs)

\* the map(|n| n * 1024) of parse_mem
Times1024(r, checks) ==
    IF r.ok THEN MulResult(LimbsMulAdd(r.val, 1, 1024, 0, <<>>), checks) ELSE ParseFail

\* parse_mem
parse_mem(mem_str, checks) ==
    Times1024(ParseU64(TrimRightMatches(mem_str, kB)), checks)

UidsResult(u) == IF u.ok THEN ParseOk(u.val) ELSE ParseFail

\* the value of one 'key: value' line, parsed the way the match arm of
\* that key parses it
StatusParse(k, value, checks) ==
    CASE k.kind = "string" -> ParseOk(value)
      [] k.kind = "uids" -> UidsResult(parse_uids(value))
      [] k.kind = "mem" -> parse_mem(value, checks)
      [] OTHER -> ParseInt(value, k.kind)

\* what a caller sees of a panic: no value is returned, the thread unwinds
Panicked == [ok |-> FALSE, err |-> ProcError("<panic>", "<none>", "attempt to multiply with overflow")]

\* the macro parse!: a failure becomes a ParsingField error carrying the
\* key; a panic inside the value expression is not a value and unwinds
parse_macro(r, key) ==
    IF r.ok THEN Ok(Some(r.val))
    ELSE IF r = ParsePanic THEN Panicked
    ELSE Err("ParsingField", "PidStatus", key)

StatusValue(k, value, checks) == parse_macro(StatusParse(k, value, checks), k.name)

\* the items of BufRead::lines: the text is cut at each newline (a last
\* line needs none); a line that is not valid UTF-8 is an Err item
Lines(data) ==
    LET pieces == Split(data, "\n")
    IN  IF pieces[Len(pieces)] = <<>>
        THEN SubSeq(pieces, 1, Len(pieces) - 1) ELSE pieces

NoStatusFields == [n \in StatusKeyNames |-> None]

\* concat!("missing ", $key) of the macro unwrap!
MissingMore(key) ==
    CASE key = "Name" -> "missing Name"
      [] key = "Tgid" -> "missing Tgid"
      [] key = "Pid" -> "missing Pid"
      [] key = "PPid" -> "missing PPid"
      [] key = "TracerPid" -> "missing TracerPid"
      [] key = "Uid" -> "missing Uid"
      [] key = "Gid" -> "missing Gid"
      [] key = "FDSize" -> "missing FDSize"
      [] key = "Threads" -> "missing Threads"

\* one match arm: the Some(try!(..)) of the macro parse! assigned to the
\* variable of key k
StatusAssign(k, v) ==
    IF v.ok THEN Ok([var |-> k.name, to |-> v.val]) ELSE v

\* the match on the key of one line: the Option variable the line sets
\* (var, "" when the key is not one the match knows) and its new value
StatusMatch(value, known, checks) ==
    IF known = {} THEN Ok([var |-> "", to |-> None])
    ELSE StatusAssign(StatusKeys[CHOOSE j \in known : TRUE],
                      StatusValue(StatusKeys[CHOOSE j \in known : TRUE], value, checks))

StatusKeyValue(key, value, checks) ==
    StatusMatch(value, {j \in 1..Len(StatusKeys) : StatusKeys[j].key = key}, checks)

\* the key and the value of a line whose first colon is at colon_offset
StatusSplitAt(line, colon_offset, checks) ==
    StatusKeyValue(Trim(SubSeq(line, 1, colon_offset - 1)),
                   Trim(SubSeq(line, colon_offset + 1, Len(line))), checks)

\* StatusLineStep as it would be if a line without a colon were passed over
StatusLineStep_skip(line, checks) ==
    IF Positions(line, ":") = {}
    THEN Ok([var |-> "", to |-> None])
    ELSE StatusSplitAt(line, Min(Positions(line, ":")), checks)

\* the body of the for loop of PidStatus::parse_string for one line
StatusLineStep(line, checks) ==
    IF Positions(line, ":") = {}
    THEN Err("ParsingField", "PidStatus", "Line missing colon")
    ELSE StatusSplitAt(line, Min(Positions(line, ":")), checks)

\* StatusSet as it would be if the first occurrence of a key were kept
StatusSet_first(got, upd) ==
    IF upd.var = "" THEN got
    ELSE IF got[upd.var].some THEN got
    ELSE [got EXCEPT ![upd.var] = upd.to]

\* the Option variables after a line that set variable upd.var
StatusSet(got, upd) ==
    IF upd.var = "" THEN got ELSE [got EXCEPT ![upd.var] = upd.to]

RECURSIVE StatusLoop(_, _, _, _)
RECURSIVE StatusAfterLine(_, _, _, _, _)

\* the for loop of PidStatus::parse_string from line i on; got holds the
\* Option variables (name, tgid, ...) as set so far.  A line that could
\* not be read ends the loop with the Reading error (try!(line)).
StatusLoop(lines, i, got, checks) ==
    IF i > Len(lines) THEN Ok(got)
    ELSE IF lines[i].err THEN Err("Reading", "PidStatus", NoMore)
    ELSE StatusAfterLine(lines, i, got, StatusLineStep(lines[i].text, checks), checks)

\* a failing line ends the loop with its error (try!)
StatusAfterLine(lines, i, got, step, checks) ==
    IF ~step.ok THEN step
    ELSE StatusLoop(lines, i + 1, StatusSet(got, step.val), checks)

\* StatusBuild as it would be if the last unset key were the one reported
StatusBuild_last(got, unset) ==
    IF unset # {}
    THEN Err("ParsingField", "PidStatus", MissingMore(StatusUnwrapped[Max(unset)]))
    ELSE Ok([n \in StatusKeyNames |->
                IF \E j \in 1..Len(StatusUnwrapped) : StatusUnwrapped[j] = n
                THEN got[n].val ELSE got[n]])

\* the end of PidStatus::parse_string: the Vm* fields stay Options; the
\* others are unwrapped, the first unset one giving 'missing <key>'
StatusBuild(got, unset) ==
    IF unset # {}
    THEN Err("ParsingField", "PidStatus", MissingMore(StatusUnwrapped[Min(unset)]))
    ELSE Ok([n \in StatusKeyNames |->
                IF \E j \in 1..Len(StatusUnwrapped) : StatusUnwrapped[j] = n
                THEN got[n].val ELSE got[n]])

StatusFinish(looped) ==
    IF ~looped.ok THEN looped
    ELSE StatusBuild(looped.val,
             {j \in 1..Len(StatusUnwrapped) : ~looped.val[StatusUnwrapped[j]].some})

\* PidStatus::parse_string, on the items of the line iterator, in a build
\* with (checks) or without overflow checks
status_parse_string(lines, checks) ==
    StatusFinish(StatusLoop(lines, 1, NoStatusFields, checks))

(***************************************************************************)
(* SpecStat: PidStat::parse_string applied to stat records.                *)
(*                                                                         *)
(* A record is written from a shape (the pid token, the gap before the     *)
(* parenthesis, the NAME, the pieces of the suffix) so that properties can *)
(* compare what the parser recovers with what was written.                 *)
(***************************************************************************)
RECURSIVE SeqsUpTo(_, _)
\* the sequences over S of length at most n
SeqsUpTo(S, n) ==
    IF n = 0 THEN {<<>>}
    ELSE LET shorter == SeqsUpTo(S, n - 1)
         IN  shorter \cup {Append(s, c) : s \in {t \in shorter : Len(t) = n - 1}, c \in S}

\* characters a process name is drawn from
NameChars == {"a", " ", "(", ")"}

Names == SeqsUpTo(NameChars, MaxNameLen)

\* a suffix of n pieces: the state R and then numbers
GoodPieces(n) == [i \in 1..n |-> IF i = 1 THEN <<"R">> ELSE <<"0">>]

FullLen == 1 + NumMandatory + NumOptional

\* tokens that stand where a number is expected
TooBig == [i \in 1..20 |-> "9"]     \* 20 nines: above u64::MAX

OddTokens == { <<"x">>, <<>>, <<"-","1">>, <<"+","7">>, TooBig }

\* the text of a record of the form PID GAP ( NAME ) SPACE SUFFIX TAIL
StatText(pidTok, gap, name, pieces, tail) ==
    pidTok \o gap \o <<"(">> \o name \o <<")", " ">> \o Join(pieces, <<" ">>) \o tail

\* the pid as written, with the number it stands for
PidTokens == { [tok |-> <<"1">>, n |-> 1], [tok |-> <<"4","2">>, n |-> 42] }

\* records 'PID (NAME) SUFFIX' with a well-formed suffix and any NAME
WellFormedShapes ==
    { [kind |-> "wellformed", pid |-> p.n, name |-> nm, pieces |-> GoodPieces(n),
       text |-> StatText(p.tok, g, nm, GoodPieces(n), t)] :
        p \in PidTokens, g \in {<<" ">>, <<" ", " ">>}, nm \in Names,
        n \in {1 + NumMandatory, 1 + NumMandatory + 3, FullLen},
        t \in {<<>>, <<"\n">>} }

\* records whose suffix is cut after n pieces
TruncatedShapes ==
    { [kind |-> "truncated", pid |-> 1, name |-> <<"a">>,
       pieces |-> GoodPieces(n),
       text |-> StatText(<<"1">>, <<" ">>, <<"a">>, GoodPieces(n), <<"\n">>)] :
        n \in 1..(FullLen + 1) }

\* records with one piece of a full suffix replaced
OddShapes ==
    { [kind |-> "odd", pid |-> 1, name |-> <<"a">>,
       pieces |-> [GoodPieces(FullLen) EXCEPT ![i] = tok],
       text |-> StatText(<<"1">>, <<" ">>, <<"a">>,
                         [GoodPieces(FullLen) EXCEPT ![i] = tok], <<>>)] :
        i \in 1..FullLen, tok \in OddTokens \cup {<<"S">>, <<"R","R">>} }

\* records without parentheses, or with only one kind of them
NoParenTexts ==
    { <<>>, <<"1">>, <<"1", " ">>,
      <<"1", " ", "a", ")", " ", "R", " ", "0">>,
      <<"1", " ", "a", " ">> \o Join(GoodPieces(FullLen), <<" ">>),
      <<"1", " ", "(", "a", " ", "R", " ", "0">>,
      <<"1", " ", ")", " ", "(", "a", " ", "R">>,
      <<"(">>, <<"1", " ", "(">>, <<")", "(", "(">>,
      <<"1", " ", "(", "a", "(", " ">> \o Join(GoodPieces(FullLen), <<" ">>) }

BrokenShapes ==
    { [kind |-> "broken", pid |-> 0, name |-> <<>>, pieces |-> <<>>,
       text |-> t] : t \in NoParenTexts }

\* tokens that stand where the state code is expected: the codes
\* get_procstate knows and others
StateTokens ==
    { <<"R">>, <<"S">>, <<"D">>, <<"Z">>, <<"T">>, <<"t">>, <<"X">>, <<"x">>,
      <<"K">>, <<"W">>, <<"P">>,
      <<>>, <<"R", "R">>, <<"r">>, <<"0">>, <<"Q">>, <<"R", "u", "n">> }

\* the numbers after the state: all good, the first one bad, or none
StateRests ==
    { Tail(GoodPieces(FullLen)),
      [Tail(GoodPieces(FullLen)) EXCEPT ![1] = <<"x">>],
      <<>> }

\* records '1 (a) TOKEN NUMBERS'; the empty token is the whole of an empty
\* suffix (before numbers it would only widen the gap after the ')')
StateShapes ==
    { [kind |-> "state", pid |-> 1, name |-> <<"a">>, pieces |-> <<tok>> \o rest,
       text |-> StatText(<<"1">>, <<" ">>, <<"a">>, <<tok>> \o rest, <<"\n">>)] :
        tok \in StateTokens \ {<<>>}, rest \in StateRests }
    \cup
    { [kind |-> "state", pid |-> 1, name |-> <<"a">>, pieces |-> << <<>> >>,
       text |-> StatText(<<"1">>, <<" ">>, <<"a">>, << <<>> >>, tail)] :
        tail \in {<<>>, <<"\n">>} }

StatShapes ==
    WellFormedShapes \cup TruncatedShapes \cup OddShapes \cup BrokenShapes
        \cup StateShapes

NotParsed == [ok |-> FALSE, err |-> ProcError("none", "none", NoMore), pending |-> TRUE]

InitScanIdle ==
    /\ listing = <<>>
    /\ fs = <<>>
    /\ query = [type |-> "NoneQuery"]
    /\ pos = 0
    /\ out = <<>>
    /\ log = <<>>
    /\ exhausted = FALSE

InitLookupIdle ==
    /\ target = [pid |-> 0]
    /\ lookup = NotParsed

InitStatIdle ==
    /\ statInput = [kind |-> "broken", pid |-> 0, name |-> <<>>,
                    pieces |-> <<>>, text |-> <<>>]
    /\ statResult = NotParsed

InitStatusIdle ==
    /\ statusInput = [kind |-> "none", lines |-> <<>>, text |-> <<>>,
                      key |-> "", at |-> 0, toks |-> <<>>]
    /\ statusResult = NotParsed

InitCmdlineIdle ==
    /\ cmdlineInput = <<>>
    /\ cmdlineResult = NotParsed

InitDecodeIdle ==
    /\ queryInput = <<>>
    /\ queryResult = NotParsed

InitMatchIdle ==
    /\ matchInput = <<>>
    /\ matchResult = None

InitTidIdle ==
    /\ taskdirs = <<>>
    /\ task_iter = None
    /\ aborted = FALSE
    /\ tidLog = <<>>

InitMemIdle ==
    /\ memInput = <<>>
    /\ memResult = None

InitTreeIdle ==
    /\ treeInput = <<>>
    /\ treeResult = None

\* the parsers no specification but their own calls
InitParsersIdle(own) ==
    /\ "stat" # own => InitStatIdle
    /\ "status" # own => InitStatusIdle
    /\ "cmdline" # own => InitCmdlineIdle
    /\ "query" # own => InitDecodeIdle
    /\ "match" # own => InitMatchIdle
    /\ "tid" # own => InitTidIdle
    /\ "mem" # own => InitMemIdle
    /\ "tree" # own => InitTreeIdle

\* the build profile where no overflowing arithmetic is reached: the
\* result of the specification's calls is the same under either
InitBuildIdle == overflow_checks = FALSE

\* the build profile: either
InitBuild == overflow_checks \in BOOLEAN

InitStat ==
    /\ statInput \in StatShapes
    /\ statResult = NotParsed
    /\ InitScanIdle
    /\ InitLookupIdle
    /\ InitBuildIdle
    /\ InitParsersIdle("stat")

\* the caller hands the text to PidStat::parse_string
ParseStat ==
    /\ statResult = NotParsed
    /\ statResult' = parse_string(statInput.text)
    /\ UNCHANGED <<statInput, scanVars, lookupVars, buildVars, matchVars, tidVars, memVars,
                   treeVars, statusVars,
                   cmdlineVars, decodeVars>>

NextStat == ParseStat

SpecStat == InitStat /\ [][NextStat]_vars

(***************************************************************************)
(* Integer formatting.                                                     *)
(***************************************************************************)
DigitChar(d) ==
    CASE d = 0 -> "0" [] d = 1 -> "1" [] d = 2 -> "2" [] d = 3 -> "3"
      [] d = 4 -> "4" [] d = 5 -> "5" [] d = 6 -> "6" [] d = 7 -> "7"
      [] d = 8 -> "8" [] d = 9 -> "9"

RECURSIVE NatToString(_)
NatToString(n) ==
    IF n < 10 THEN <<DigitChar(n)>>
    ELSE Append(NatToString(n \div 10), DigitChar(n % 10))

\* i32::to_string
to_string(n) == IF n < 0 THEN <<"-">> \o NatToString(0 - n) ELSE NatToString(n)

(***************************************************************************)
(* Sample /proc content.                                                   *)
(***************************************************************************)
\* a complete stat record: the state S, the ppid and 48 further numbers
StatRecord(pid, comm, ppid) ==
    StatText(to_string(pid), <<" ">>, comm,
             [i \in 1..FullLen |-> IF i = 1 THEN <<"S">>
                                   ELSE IF i = 2 THEN to_string(ppid)
                                   ELSE <<"0">>],
             <<"\n">>)

KeyText(name) == StatusKeys[CHOOSE j \in 1..Len(StatusKeys) : StatusKeys[j].name = name].key

StatusLine(name, value) == KeyText(name) \o <<":", "\t">> \o value \o <<"\n">>

Quad == <<"0", "\t", "0", "\t", "0", "\t", "0">>

\* a status record; withTgid = FALSE leaves the Tgid line out
StatusRecord(pid, comm, ppid, withTgid) ==
    StatusLine("Name", comm)
      \o (IF withTgid THEN StatusLine("Tgid", to_string(pid)) ELSE <<>>)
      \o StatusLine("Pid", to_string(pid))
      \o StatusLine("PPid", to_string(ppid))
      \o StatusLine("TracerPid", <<"0">>)
      \o StatusLine("Uid", Quad)
      \o StatusLine("Gid", Quad)
      \o StatusLine("FDSize", <<"6", "4">>)
      \o StatusLine("VmRSS", <<" ", " ", "4", " ", "k", "B">>)
      \o StatusLine("Threads", <<"1">>)

\* the processes of the samples: pid, name, parent and arguments
Proc1 == [pid |-> 1, comm |-> <<"a">>, ppid |-> 0,
          cmdline |-> <<"a", NUL, "-", "b", NUL>>]
Proc5 == [pid |-> 5, comm |-> <<"b", ")">>, ppid |-> 1,
          cmdline |-> <<"b", NUL>>]

\* the texts of the samples, and what the parsers make of them
GoodStat1 == StatRecord(Proc1.pid, Proc1.comm, Proc1.ppid)
GoodStat5 == StatRecord(Proc5.pid, Proc5.comm, Proc5.ppid)
BadStateStat == <<"1", " ", "(", "a", ")", " ", "3">>
GoodStatus1 == StatusRecord(Proc1.pid, Proc1.comm, Proc1.ppid, TRUE)
GoodStatus5 == StatusRecord(Proc5.pid, Proc5.comm, Proc5.ppid, TRUE)
NoTgidStatus == StatusRecord(Proc1.pid, Proc1.comm, Proc1.ppid, FALSE)
NoColonStatus == <<"N", "a", "m", "e", "\n">>

GoodStatOf(p) == IF p.pid = Proc1.pid THEN GoodStat1 ELSE GoodStat5
GoodStatusOf(p) == IF p.pid = Proc1.pid THEN GoodStatus1 ELSE GoodStatus5

\* the items the line iterator of PidStatus::new hands to parse_string: a
\* line that is not valid UTF-8 is an Err item
ReadLinesOf(ls) == [i \in 1..Len(ls) |-> [err |-> ~ValidUtf8(ls[i]), text |-> ls[i]]]

ReadLines(data) == ReadLinesOf(Lines(data))

\* what the parsers make of the sample texts, computed once
ParsedGoodStat1 == parse_string(GoodStat1)
ParsedGoodStat5 == parse_string(GoodStat5)
\* (no Vm value of the samples overflows: the build profile plays no part)
ParsedGoodStatus1 == status_parse_string(ReadLines(GoodStatus1), TRUE)
ParsedGoodStatus5 == status_parse_string(ReadLines(GoodStatus5), TRUE)
ParsedNoTgidStatus == status_parse_string(ReadLines(NoTgidStatus), TRUE)

(***************************************************************************)
(* Files of a /proc/[pid] directory.  A file is missing (open fails),      *)
(* unreadable (open succeeds, the read fails) or holds data.               *)
(***************************************************************************)
Missing == [st |-> "missing", data |-> <<>>]
Unreadable == [st |-> "ioerr", data |-> <<>>]
Data(d) == [st |-> "data", data |-> d]

\* PidStat::new
PidStat_new(file) ==
    IF file.st = "missing" THEN Err("Opening", "PidStat", NoMore)
    ELSE IF file.st = "ioerr" THEN Err("Reading", "PidStat", NoMore)
    ELSE IF ~ValidUtf8(file.data) THEN Err("Parsing", "PidStat", NoMore)
    ELSE IF file.data = GoodStat1 THEN ParsedGoodStat1
    ELSE IF file.data = GoodStat5 THEN ParsedGoodStat5
    ELSE parse_string(file.data)

\* PidStatus::new
PidStatus_new(file) ==
    IF file.st = "missing" THEN Err("Opening", "PidStatus", NoMore)
    ELSE IF file.st = "ioerr"
    THEN status_parse_string(<<[err |-> TRUE, text |-> <<>>]>>, overflow_checks)
    ELSE IF file.data = GoodStatus1 THEN ParsedGoodStatus1
    ELSE IF file.data = GoodStatus5 THEN ParsedGoodStatus5
    ELSE IF file.data = NoTgidStatus THEN ParsedNoTgidStatus
    ELSE status_parse_string(ReadLines(file.data), overflow_checks)

\* Pid::read_cmdline as it would be if the trailing NUL were kept
read_cmdline_nopop(file) ==
    IF file.st = "missing" THEN Err("Opening", "PidCmdline", NoMore)
    ELSE IF file.st = "ioerr" THEN Err("Reading", "PidCmdline", NoMore)
    ELSE IF ~ValidUtf8(file.data)
    THEN Err("Parsing", "PidCmdline", "parsing utf8")
    ELSE Ok(Split(file.data, NUL))

\* Pid::read_cmdline
read_cmdline(file) ==
    IF file.st = "missing" THEN Err("Opening", "PidCmdline", NoMore)
    ELSE IF file.st = "ioerr" THEN Err("Reading", "PidCmdline", NoMore)
    ELSE
    LET contents == IF file.data # <<>> /\ file.data[Len(file.data)] = NUL
                    THEN SubSeq(file.data, 1, Len(file.data) - 1)
                    ELSE file.data
    IN  IF ~ValidUtf8(contents)
        THEN Err("Parsing", "PidCmdline", "parsing utf8")
        ELSE Ok(Split(contents, NUL))

(***************************************************************************)
(* Pid and PidIter (pid/mod.rs).                                           *)
(***************************************************************************)
\* the files of directory dir below the scanned directory; a directory that
\* does not exist has no files to open
FilesOf(files, dir) ==
    IF dir \in DOMAIN files THEN files[dir]
    ELSE [stat |-> Missing, status |-> Missing, cmdline |-> Missing]

\* PidOf as it would be if the files were checked in the reverse order
PidOf_reversed(pid, pid_stat, pid_status, cmdline) ==
    IF ~cmdline.ok THEN cmdline
    ELSE IF ~pid_status.ok THEN pid_status
    ELSE IF ~pid_stat.ok THEN pid_stat
    ELSE Ok([pid |-> pid, stat |-> pid_stat.val, status |-> pid_status.val,
             cmdline |-> cmdline.val, is_thread |-> FALSE])

\* the end of Pid::new_dir: the first failure among the three reads is
\* returned (try!), in the order stat, status, cmdline
PidOf(pid, pid_stat, pid_status, cmdline) ==
    IF ~pid_stat.ok THEN pid_stat
    ELSE IF ~pid_status.ok THEN pid_status
    ELSE IF ~cmdline.ok THEN cmdline
    ELSE Ok([pid |-> pid, stat |-> pid_stat.val, status |-> pid_status.val,
             cmdline |-> cmdline.val, is_thread |-> FALSE])

ReadFiles(pid, proc_dir) ==
    PidOf(pid, PidStat_new(proc_dir.stat), PidStatus_new(proc_dir.status),
          read_cmdline(proc_dir.cmdline))

\* Pid::new_dir
new_dir(files, pid) == ReadFiles(pid, FilesOf(files, to_string(pid)))

\* PidQuery::taskid_query
taskid_query(tid, q) == tid = q

\* PidQuery::string_query as it would be if the text had to begin with q
string_query_prefix(text, q) ==
    Len(q) <= Len(text) /\ SubSeq(text, 1, Len(q)) = q

\* PidQuery::string_query
string_query(text, q) == Contains(text, q)

\* Pid::query
Pid_query(prc, q) ==
    CASE q.type = "PidQuery" -> taskid_query(prc.stat.pid, q.tid)
      [] q.type = "PpidQuery" -> taskid_query(prc.stat.ppid, q.tid)
      [] q.type = "NameQuery" -> string_query(prc.stat.comm, q.text)
      [] q.type = "CmdlineQuery" -> string_query(Join(prc.cmdline, <<" ">>), q.text)
      [] q.type = "NoneQuery" -> TRUE

\* what a directory entry's name parses to as a TaskId (i32)
EntryPid(name) == ParseInt(name, "i32")

\* FilterBuildError as it would be if every failure of new_dir were returned
FilterBuildError_all(e) == Some([ok |-> FALSE, err |-> e])

\* FilterBuildError as it would be if the test of is_hard were negated
FilterBuildError_negated(e) == IF ~IsHard(e) THEN Some([ok |-> FALSE, err |-> e]) ELSE None

\* the error proc_dir_filter returns for a hard failure of new_dir and what
\* it returns for a soft one
FilterBuildError(e) == IF IsHard(e) THEN Some([ok |-> FALSE, err |-> e]) ELSE None

\* FilterBuilt as it would be if the query were not applied
FilterBuilt_unfiltered(prc, q) ==
    IF ~prc.ok THEN [item |-> FilterBuildError(prc.err), built |-> Some(prc)]
    ELSE [item |-> Some(prc), built |-> Some(prc)]

\* the end of proc_dir_filter, on the result prc of Pid::new_dir: item is
\* what the function returns, built records the result of new_dir
FilterBuilt(prc, q) ==
    IF ~prc.ok THEN [item |-> FilterBuildError(prc.err), built |-> Some(prc)]
    ELSE IF Pid_query(prc.val, q) THEN [item |-> Some(prc), built |-> Some(prc)]
    ELSE [item |-> None, built |-> Some(prc)]

\* the match on the parsed file name in proc_dir_filter
FilterParsed(pid, q, files) ==
    IF ~pid.ok THEN [item |-> None, built |-> None]
    ELSE FilterBuilt(new_dir(files, pid.val), q)

\* PidIter::proc_dir_filter.  An entry of the listing is the io::Error of
\* read_dir ("ioerr"), a name that is not UTF-8 ("nonutf8") or a name.
\* Returns the Option the function returns (item) and, for the record of
\* the scan, the result of Pid::new_dir when it was called (built).
proc_dir_filter(entry, q, files) ==
    IF entry.kind = "ioerr"
    THEN [item |-> Some(Err("Reading", "ProcDir", "PidIter")), built |-> None]
    ELSE IF entry.kind = "nonutf8"
    THEN [item |-> Some(Err("Parsing", "ProcDir", "PidIter")), built |-> None]
    ELSE FilterParsed(EntryPid(entry.name), q, files)

RECURSIVE NextFrom(_, _, _, _, _)
RECURSIVE NextStep(_, _, _, _, _, _)

\* the for loop of PidIter::next from entry i on: entries are consumed until
\* proc_dir_filter returns Some.  seen collects, per consumed entry, what
\* proc_dir_filter did.
NextFrom(entries, files, q, i, seen) ==
    IF i > Len(entries) THEN [pos |-> Len(entries), item |-> None, seen |-> seen]
    ELSE NextStep(entries, files, q, i, seen, proc_dir_filter(entries[i], q, files))

\* the match in the loop: Some is returned, None continues with the next entry
NextStep(entries, files, q, i, seen, r) ==
    IF r.item.some
    THEN [pos |-> i, item |-> r.item,
          seen |-> Append(seen, [idx |-> i, item |-> r.item, built |-> r.built])]
    ELSE NextFrom(entries, files, q, i + 1,
                  Append(seen, [idx |-> i, item |-> r.item, built |-> r.built]))

(***************************************************************************)
(* Pid::tasks_query and TidIter (pid/mod.rs).  A task directory is missing *)
(* (read_dir fails) or holds the entries of the threads and their files.   *)
(***************************************************************************)
NoTaskDir == [st |-> "missing", entries |-> <<>>, files |-> <<>>]

\* /proc/[pid]/task as read_dir finds it
TaskDirOf(dirs, pid) ==
    IF to_string(pid) \in DOMAIN dirs THEN dirs[to_string(pid)] ELSE NoTaskDir

\* PidIter::new_tid_query
new_tid_query(dirs, pid) ==
    IF TaskDirOf(dirs, pid).st = "missing"
    THEN Err("Opening", "PidTaskDir", "PidIter")
    ELSE Ok(TaskDirOf(dirs, pid))

RECURSIVE CollectTasks(_, _, _, _, _)
RECURSIVE CollectStep(_, _, _, _, _)

\* .filter(..).collect::<Result<Vec<_>, _>>() over the PidIter of the task
\* directory, from entry i on: the first Err item ends the collection
CollectTasks(entries, files, q, i, acc) ==
    CollectStep(entries, files, q, acc, NextFrom(entries, files, q, i, <<>>))

CollectStep(entries, files, q, acc, r) ==
    IF ~r.item.some THEN Ok(acc)
    ELSE IF ~r.item.val.ok THEN r.item.val
    ELSE IF Pid_query(r.item.val.val, q)
    THEN CollectTasks(entries, files, q, r.pos + 1, Append(acc, r.item.val.val))
    ELSE CollectTasks(entries, files, q, r.pos + 1, acc)

\* Result::ok
ResultOk(r) == IF r.ok THEN Some(r.val) ELSE None

\* the outcome of tasks_query: it panicked, or returned val; listed tells
\* whether a task directory was opened
TasksPanic == [panic |-> TRUE, val |-> None, listed |-> TRUE]
TasksDone(val, listed) == [panic |-> FALSE, val |-> val, listed |-> listed]

\* tasks_query after new_tid_query: unwrap, then filter and collect
TasksListed(it, q) ==
    IF ~it.ok THEN TasksPanic
    ELSE TasksDone(ResultOk(CollectTasks(it.val.entries, it.val.files, q, 1, <<>>)),
                   TRUE)

\* Pid::tasks_query
tasks_query(prc, q, dirs) ==
    IF prc.is_thread THEN TasksDone(None, FALSE)
    ELSE TasksListed(new_tid_query(dirs, prc.pid), q)

\* Pid::tasks
tasks(prc, dirs) == tasks_query(prc, [type |-> "NoneQuery"], dirs)

\* what a call of TidIter::next leaves: the position of pid_iter, task_iter,
\* the returned Option (ret), whether it panicked, and the processes it
\* handed to tasks_query (seen)
TidReturn(at, iter, ret, seen) ==
    [pos |-> at, task_iter |-> iter, ret |-> ret, panic |-> FALSE, seen |-> seen]

TidPanic(at, seen) ==
    [pos |-> at, task_iter |-> None, ret |-> None, panic |-> TRUE, seen |-> seen]

RECURSIVE TidLoop(_, _, _, _, _, _, _)
RECURSIVE TidPidNext(_, _, _, _, _, _)
RECURSIVE TidTasks(_, _, _, _, _, _, _)

\* the loop of TidIter::next
TidLoop(entries, files, dirs, q, at, iter, seen) ==
    IF ~iter.some
    THEN TidPidNext(entries, files, dirs, q, seen,
                    NextFrom(entries, files, q, at + 1, <<>>))
    ELSE IF iter.val = <<>>
    THEN TidLoop(entries, files, dirs, q, at, None, seen)
    ELSE TidReturn(at, Some(Tail(iter.val)), Some(Ok(Head(iter.val))), seen)

\* the match on self.pid_iter.next()
TidPidNext(entries, files, dirs, q, seen, r) ==
    IF ~r.item.some THEN TidReturn(r.pos, None, None, seen)
    ELSE IF ~r.item.val.ok THEN TidReturn(r.pos, None, r.item, seen)
    ELSE TidTasks(entries, files, dirs, q, r.pos, seen,
                  tasks_query(r.item.val.val, q, dirs))

\* if let Some(vec) = tasks_vec
TidTasks(entries, files, dirs, q, at, seen, t) ==
    IF t.panic THEN TidPanic(at, Append(seen, [kind |-> "process", idx |-> at, tasks |-> t]))
    ELSE TidLoop(entries, files, dirs, q, at, t.val,
                 Append(seen, [kind |-> "process", idx |-> at, tasks |-> t]))

(***************************************************************************)
(* The memory summary (meminfo/mod.rs).                                    *)
(***************************************************************************)
\* the fields of struct Meminfo and the key build_minfo takes each from, in
\* the order of the struct; the last three are the keys Meminfo::new adds
MemFields ==
    << [field |-> "memtotal", name |-> "MemTotal",
        key |-> <<"M", "e", "m", "T", "o", "t", "a", "l">>],
       [field |-> "memfree", name |-> "MemFree",
        key |-> <<"M", "e", "m", "F", "r", "e", "e">>],
       [field |-> "memavailable", name |-> "MemAvailable",
        key |-> <<"M", "e", "m", "A", "v", "a", "i", "l", "a", "b", "l", "e">>],
       [field |-> "buffers", name |-> "Buffers",
        key |-> <<"B", "u", "f", "f", "e", "r", "s">>],
       [field |-> "cached", name |-> "Cached",
        key |-> <<"C", "a", "c", "h", "e", "d">>],
       [field |-> "swapcached", name |-> "SwapCached",
        key |-> <<"S", "w", "a", "p", "C", "a", "c", "h", "e", "d">>],
       [field |-> "active", name |-> "Active",
        key |-> <<"A", "c", "t", "i", "v", "e">>],
       [field |-> "inactive", name |-> "Inactive",
        key |-> <<"I", "n", "a", "c", "t", "i", "v", "e">>],
       [field |-> "activeanon", name |-> "Active(anon)",
        key |-> <<"A", "c", "t", "i", "v", "e", "(", "a", "n", "o", "n", ")">>],
       [field |-> "inactiveanon", name |-> "Inactive(anon)",
        key |-> <<"I", "n", "a", "c", "t", "i", "v", "e", "(", "a", "n", "o", "n", ")">>],
       [field |-> "activefile", name |-> "Active(file)",
        key |-> <<"A", "c", "t", "i", "v", "e", "(", "f", "i", "l", "e", ")">>],
       [field |-> "inactivefile", name |-> "Inactive(file)",
        key |-> <<"I", "n", "a", "c", "t", "i", "v", "e", "(", "f", "i", "l", "e", ")">>],
       [field |-> "unevictable", name |-> "Unevictable",
        key |-> <<"U", "n", "e", "v", "i", "c", "t", "a", "b", "l", "e">>],
       [field |-> "mlocked", name |-> "Mlocked",
        key |-> <<"M", "l", "o", "c", "k", "e", "d">>],
       [field |-> "swaptotal", name |-> "SwapTotal",
        key |-> <<"S", "w", "a", "p", "T", "o", "t", "a", "l">>],
       [field |-> "swapfree", name |-> "SwapFree",
        key |-> <<"S", "w", "a", "p", "F", "r", "e", "e">>],
       [field |-> "dirty", name |-> "Dirty",
        key |-> <<"D", "i", "r", "t", "y">>],
       [field |-> "writeback", name |-> "Writeback",
        key |-> <<"W", "r", "i", "t", "e", "b", "a", "c", "k">>],
       [field |-> "anonpages", name |-> "AnonPages",
        key |-> <<"A", "n", "o", "n", "P", "a", "g", "e", "s">>],
       [field |-> "mapped", name |-> "Mapped",
        key |-> <<"M", "a", "p", "p", "e", "d">>],
       [field |-> "shmem", name |-> "Shmem",
        key |-> <<"S", "h", "m", "e", "m">>],
       [field |-> "slab", name |-> "Slab",
        key |-> <<"S", "l", "a", "b">>],
       [field |-> "srelclaimable", name |-> "SReclaimable",
        key |-> <<"S", "R", "e", "c", "l", "a", "i", "m", "a", "b", "l", "e">>],
       [field |-> "sunreclaim", name |-> "SUnreclaim",
        key |-> <<"S", "U", "n", "r", "e", "c", "l", "a", "i", "m">>],
       [field |-> "kernelstack", name |-> "KernelStack",
        key |-> <<"K", "e", "r", "n", "e", "l", "S", "t", "a", "c", "k">>],
       [field |-> "pagetables", name |-> "PageTables",
        key |-> <<"P", "a", "g", "e", "T", "a", "b", "l", "e", "s">>],
       [field |-> "nfsunstable", name |-> "NFS_Unstable",
        key |-> <<"N", "F", "S", "_", "U", "n", "s", "t", "a", "b", "l", "e">>],
       [field |-> "bounce", name |-> "Bounce",
        key |-> <<"B", "o", "u", "n", "c", "e">>],
       [field |-> "writebacktmp", name |-> "WritebackTmp",
        key |-> <<"W", "r", "i", "t", "e", "b", "a", "c", "k", "T", "m", "p">>],
       [field |-> "commitlimit", name |-> "CommitLimit",
        key |-> <<"C", "o", "m", "m", "i", "t", "L", "i", "m", "i", "t">>],
       [field |-> "committedas", name |-> "Committed_AS",
        key |-> <<"C", "o", "m", "m", "i", "t", "t", "e", "d", "_", "A", "S">>],
       [field |-> "vmalloctotal", name |-> "VmallocTotal",
        key |-> <<"V", "m", "a", "l", "l", "o", "c", "T", "o", "t", "a", "l">>],
       [field |-> "vmallocused", name |-> "VmallocUsed",
        key |-> <<"V", "m", "a", "l", "l", "o", "c", "U", "s", "e", "d">>],
       [field |-> "vmallocchunk", name |-> "VmallocChunk",
        key |-> <<"V", "m", "a", "l", "l", "o", "c", "C", "h", "u", "n", "k">>],
       [field |-> "hardwarecorrupted", name |-> "HardwareCorrupted",
        key |-> <<"H", "a", "r", "d", "w", "a", "r", "e", "C", "o", "r", "r", "u", "p", "t", "e", "d">>],
       [field |-> "anonhugepages", name |-> "AnonHugePages",
        key |-> <<"A", "n", "o", "n", "H", "u", "g", "e", "P", "a", "g", "e", "s">>],
       [field |-> "hugepagestotal", name |-> "HugePages_Total",
        key |-> <<"H", "u", "g", "e", "P", "a", "g", "e", "s", "_", "T", "o", "t", "a", "l">>],
       [field |-> "hugepagesfree", name |-> "HugePages_Free",
        key |-> <<"H", "u", "g", "e", "P", "a", "g", "e", "s", "_", "F", "r", "e", "e">>],
       [field |-> "hugepagsersvd", name |-> "HugePages_Rsvd",
        key |-> <<"H", "u", "g", "e", "P", "a", "g", "e", "s", "_", "R", "s", "v", "d">>],
       [field |-> "hugepagessurp", name |-> "HugePages_Surp",
        key |-> <<"H", "u", "g", "e", "P", "a", "g", "e", "s", "_", "S", "u", "r", "p">>],
       [field |-> "hugepagessize", name |-> "Hugepagesize",
        key |-> <<"H", "u", "g", "e", "p", "a", "g", "e", "s", "i", "z", "e">>],
       [field |-> "directmap4k", name |-> "DirectMap4k",
        key |-> <<"D", "i", "r", "e", "c", "t", "M", "a", "p", "4", "k">>],
       [field |-> "directmap2m", name |-> "DirectMap2M",
        key |-> <<"D", "i", "r", "e", "c", "t", "M", "a", "p", "2", "M">>],
       [field |-> "mainused", name |-> "MainUsed",
        key |-> <<"M", "a", "i", "n", "U", "s", "e", "d">>],
       [field |-> "maincached", name |-> "MainCached",
        key |-> <<"M", "a", "i", "n", "C", "a", "c", "h", "e", "d">>],
       [field |-> "mainswapused", name |-> "MainSwapUsed",
        key |-> <<"M", "a", "i", "n", "S", "w", "a", "p", "U", "s", "e", "d">>] >>

MemKey(name) ==
    MemFields[CHOOSE i \in 1..Len(MemFields) : MemFields[i].name = name].key

\* the keys Meminfo::new inserts itself
DerivedNames == {"MainUsed", "MainCached", "MainSwapUsed"}

RECURSIVE TrimMatches(_, _)
\* str::trim_matches(c)
TrimMatches(s, c) ==
    IF s # <<>> /\ Head(s) = c THEN TrimMatches(Tail(s), c)
    ELSE IF s # <<>> /\ s[Len(s)] = c THEN TrimMatches(SubSeq(s, 1, Len(s) - 1), c)
    ELSE s

\* Err(MeminfoError::Io(..))
MemErr == [ok |-> FALSE, panic |-> FALSE, err |-> "Io"]

\* a panic: no value is returned, the thread unwinds
MemPanic(why) == [ok |-> FALSE, panic |-> TRUE, err |-> why]

UnwrapNone == "called Option::unwrap() on a None value"
UnwrapErr == "called Result::unwrap() on an Err value"
SubOverflow == "attempt to subtract with overflow"
AddOverflow == "attempt to add with overflow"

\* Meminfo::parse_line on the tokens of the line
ParseLineToks(toks) ==
    IF Len(toks) = 0 THEN MemPanic(UnwrapNone)
    ELSE IF Len(toks) = 1 THEN MemPanic(UnwrapNone)
    ELSE IF ~ParseU64(toks[2]).ok THEN MemPanic(UnwrapErr)
    ELSE Ok([key |-> TrimMatches(toks[1], ":"), value |-> ParseU64(toks[2]).val])

\* Meminfo::parse_line
parse_line(line) == ParseLineToks(SplitWhitespace(line))

\* collect::<Result<HashMap<_, _>, _>>() over the parsed lines: the first
\* panic unwinds; a later line of the same key replaces the earlier one
MemCollect(parsed) ==
    IF \E i \in 1..Len(parsed) : ~parsed[i].ok
    THEN parsed[Min({i \in 1..Len(parsed) : ~parsed[i].ok})]
    ELSE Ok([k \in {parsed[i].val.key : i \in 1..Len(parsed)} |->
                parsed[Max({i \in 1..Len(parsed) : parsed[i].val.key = k})].val.value])

RECURSIVE LimbsAdd(_, _, _, _, _)
\* a + b on limbs from limb i on: the low 64 bits and the carry out of them
LimbsAdd(a, b, i, carry, acc) ==
    IF i > Len(a) THEN [limbs |-> acc, carry |-> carry]
    ELSE LimbsAdd(a, b, i + 1, (a[i] + b[i] + carry) \div LimbBase,
                  Append(acc, (a[i] + b[i] + carry) % LimbBase))

RECURSIVE LimbsSub(_, _, _, _, _)
\* a - b on limbs from limb i on: the low 64 bits and the borrow out of them
LimbsSub(a, b, i, borrow, acc) ==
    IF i > Len(a) THEN [limbs |-> acc, carry |-> borrow]
    ELSE LimbsSub(a, b, i + 1, IF a[i] - b[i] - borrow < 0 THEN 1 ELSE 0,
                  Append(acc, (a[i] - b[i] - borrow + LimbBase) % LimbBase))

\* u64 + and -: on overflow the build panics (checks) or wraps
U64Add(a, b, checks) == MulResult(LimbsAdd(a, b, 1, 0, <<>>), checks)
U64Sub(a, b, checks) == MulResult(LimbsSub(a, b, 1, 0, <<>>), checks)
U64SubThen(r, b, checks) == IF r.ok THEN U64Sub(r.val, b, checks) ELSE r

\* HashMap::insert
MapInsert(h, key, v) == [k \in DOMAIN h \cup {key} |-> IF k = key THEN v ELSE h[k]]

\* hmap.get(name) is Some for each of the names
HasKeys(h, names) == \A n \in names : MemKey(n) \in DOMAIN h

\* Meminfo::build_minfo
build_minfo(h) ==
    IF \E i \in 1..Len(MemFields) : MemFields[i].key \notin DOMAIN h
    THEN MemPanic(UnwrapNone)
    ELSE Ok([f \in {MemFields[i].field : i \in 1..Len(MemFields)} |->
                h[MemFields[CHOOSE i \in 1..Len(MemFields) : MemFields[i].field = f].key]])

\* total - free - cached - buffer
MemMainUsed(h, checks) ==
    U64SubThen(U64SubThen(U64Sub(h[MemKey("MemTotal")], h[MemKey("MemFree")], checks),
                          h[MemKey("Cached")], checks),
               h[MemKey("Buffers")], checks)

\* Meminfo::new from the swap derivation on
MemNewBuild(h, swap) ==
    IF ~swap.ok THEN MemPanic(SubOverflow)
    ELSE build_minfo(MapInsert(h, MemKey("MainSwapUsed"), swap.val))

MemNewSwap(h, cache, checks) ==
    IF ~cache.ok THEN MemPanic(AddOverflow)
    ELSE IF ~HasKeys(h, {"SwapTotal", "SwapFree"}) THEN MemPanic(UnwrapNone)
    ELSE MemNewBuild(MapInsert(h, MemKey("MainCached"), cache.val),
                     U64Sub(h[MemKey("SwapTotal")], h[MemKey("SwapFree")], checks))

\* MemNewCached as it would be if the reclaimable slab were added
MemNewCached_reclaimable(h, used, checks) ==
    IF ~used.ok THEN MemPanic(SubOverflow)
    ELSE IF ~HasKeys(h, {"Cached", "SReclaimable"}) THEN MemPanic(UnwrapNone)
    ELSE MemNewSwap(MapInsert(h, MemKey("MainUsed"), used.val),
                    U64Add(h[MemKey("Cached")], h[MemKey("SReclaimable")], checks), checks)

\* Meminfo::new from the cache derivation on
MemNewCached(h, used, checks) ==
    IF ~used.ok THEN MemPanic(SubOverflow)
    ELSE IF ~HasKeys(h, {"Cached", "Slab"}) THEN MemPanic(UnwrapNone)
    ELSE MemNewSwap(MapInsert(h, MemKey("MainUsed"), used.val),
                    U64Add(h[MemKey("Cached")], h[MemKey("Slab")], checks), checks)

\* Meminfo::new from the first derivation on
MemNewUsed(h, checks) ==
    IF ~HasKeys(h, {"MemTotal", "MemFree", "Cached", "Buffers"})
    THEN MemPanic(UnwrapNone)
    ELSE MemNewCached(h, MemMainUsed(h, checks), checks)

MemNewMap(c, checks) == IF ~c.ok THEN c ELSE MemNewUsed(c.val, checks)

MemNewLines(lines, checks) ==
    MemNewMap(MemCollect([i \in 1..Len(lines) |-> parse_line(lines[i])]), checks)

\* Meminfo::new
Meminfo_new(file, checks) ==
    IF file.st \in {"missing", "ioerr"} THEN MemErr
    ELSE IF ~ValidUtf8(file.data) THEN MemErr
    ELSE MemNewLines(Lines(file.data), checks)

(***************************************************************************)
(* psq (psq/main.rs): the process tree of the -T option.  A record is      *)
(* reduced to the two fields the tree uses, stat.pid and stat.ppid.        *)
(***************************************************************************)
MaxTreeLen == 3     \* longest list of records handed to treeify_names

\* repeat("  ").take(i).collect::<String>()
RECURSIVE IndentText(_)
IndentText(i) == IF i <= 0 THEN <<>> ELSE <<" ", " ">> \o IndentText(i - 1)

\* child_pids.entry(ppid).or_insert(Vec::new()).push(pid), for every record
\* of pids in order: the map from a ppid to the records that name it
RECURSIVE GroupByPpid(_, _, _)
GroupByPpid(pids, at, child_pids) ==
    IF at > Len(pids) THEN child_pids
    ELSE GroupByPpid(pids, at + 1,
            MapInsert(child_pids, pids[at].ppid,
                IF pids[at].ppid \in DOMAIN child_pids
                THEN Append(child_pids[pids[at].ppid], pids[at])
                ELSE <<pids[at]>>))

\* HashMap::remove of a key
MapRemove(map, key) == [k \in (DOMAIN map) \ {key} |-> map[k]]

\* enumerate_children with its two maps threaded through: name_indents
\* gets the indent of pid, the children of pid are taken out of child_pids,
\* and each child is pushed followed by its own descendants
RECURSIVE enumerate_children(_, _, _, _), EnumerateLoop(_, _, _, _, _, _)

\* pids.append(&mut enumerate_children(..)) and the next turn of the loop
EnumerateJoin(ppids, at, indent, pids, sub) ==
    EnumerateLoop(ppids, at + 1, sub.child_pids, sub.name_indents, indent,
                  pids \o sub.pids)

enumerate_children(pid, child_pids, name_indents, indent) ==
    IF pid \notin DOMAIN child_pids
    THEN [pids |-> <<>>, child_pids |-> child_pids,
          name_indents |-> MapInsert(name_indents, pid, IndentText(indent))]
    ELSE EnumerateLoop(child_pids[pid], 1, MapRemove(child_pids, pid),
                       MapInsert(name_indents, pid, IndentText(indent)),
                       indent, <<>>)

EnumerateLoop(ppids, at, child_pids, name_indents, indent, pids) ==
    IF at > Len(ppids)
    THEN [pids |-> pids, child_pids |-> child_pids, name_indents |-> name_indents]
    ELSE EnumerateJoin(ppids, at, indent, Append(pids, ppids[at]),
            enumerate_children(ppids[at].pid, child_pids, name_indents, indent + 1))

\* treeify_names: the records reachable from the parent id 0
treeify_names(pids) ==
    enumerate_children(0, GroupByPpid(pids, 1, <<>>), <<>>, 0 - 1)

\* main with the tree option: the rows of the table are built in the order
\* treeify_names returned, each taking its indent out of name_indent
\* (remove(..).unwrap() panics when the pid has no entry left)
RECURSIVE TreeRows(_, _, _, _)
TreeRows(pids, at, name_indent, rows) ==
    IF at > Len(pids) THEN [pids |-> pids, rows |-> rows, panicked |-> FALSE]
    ELSE IF pids[at].pid \notin DOMAIN name_indent
         THEN [pids |-> pids, rows |-> rows, panicked |-> TRUE]
         ELSE TreeRows(pids, at + 1, MapRemove(name_indent, pids[at].pid),
                       Append(rows, name_indent[pids[at].pid]))

TreeOf(tree) == TreeRows(tree.pids, 1, tree.name_indents, <<>>)

main_tree(pids) == TreeOf(treeify_names(pids))

(***************************************************************************)
(* PidQuery::create_query (pid/mod.rs): decoding a query string.           *)
(***************************************************************************)
UpperCase == <<"A", "B", "C", "D", "E", "F", "G", "H", "I", "J", "K", "L", "M",
               "N", "O", "P", "Q", "R", "S", "T", "U", "V", "W", "X", "Y", "Z">>
LowerCase == <<"a", "b", "c", "d", "e", "f", "g", "h", "i", "j", "k", "l", "m",
               "n", "o", "p", "q", "r", "s", "t", "u", "v", "w", "x", "y", "z">>

\* str::to_lowercase as it would be if it left the text as it is
to_lowercase_asis(s) == s

\* str::to_lowercase, on the characters of the model
to_lowercase(s) ==
    [i \in 1..Len(s) |->
        IF \E j \in 1..Len(UpperCase) : UpperCase[j] = s[i]
        THEN LowerCase[CHOOSE j \in 1..Len(UpperCase) : UpperCase[j] = s[i]]
        ELSE s[i]]

\* the Err(String) create_query returns
QueryErr(text) == [ok |-> FALSE, err |-> text]

\* the arm for a query without '='
QueryBare(q_str, tid) ==
    IF tid.ok THEN Ok([type |-> "PidQuery", tid |-> tid.val])
    ELSE Ok([type |-> "NameQuery", text |-> q_str])

\* the arm for a query 'key=value': the match on the lower-cased key
QueryKeyed(key, q_text, q_tid) ==
    CASE key = <<"p", "i", "d">> ->
            IF q_tid.ok THEN Ok([type |-> "PidQuery", tid |-> q_tid.val])
            ELSE QueryErr("Query value for type 'pid' not valid")
      [] key = <<"p", "p", "i", "d">> ->
            IF q_tid.ok THEN Ok([type |-> "PpidQuery", tid |-> q_tid.val])
            ELSE QueryErr("Query value for type 'ppid' not valid")
      [] key = <<"n", "a", "m", "e">> -> Ok([type |-> "NameQuery", text |-> q_text])
      [] key = <<"c", "m", "d", "l", "i", "n", "e">> ->
            Ok([type |-> "CmdlineQuery", text |-> q_text])
      [] OTHER -> QueryErr("Invalid query type")

QuerySplits(q_str, splits) ==
    IF Len(splits) = 0 THEN Ok([type |-> "NoneQuery"])
    ELSE IF Len(splits) = 1 THEN QueryBare(q_str, ParseInt(q_str, "i32"))
    ELSE QueryKeyed(to_lowercase(splits[1]), splits[2], ParseInt(splits[2], "i32"))

\* PidQuery::create_query
create_query(q_str) == QuerySplits(q_str, SplitN2(q_str, "="))

\* PidQuery::from_str
from_str(s) == create_query(s)

(***************************************************************************)
(* The states of the sample files.                                         *)
(***************************************************************************)
\* the files of a process that is alive and well
GoodFiles(p) ==
    [stat |-> Data(GoodStatOf(p)), status |-> Data(GoodStatusOf(p)),
     cmdline |-> Data(p.cmdline)]

Gone == [stat |-> Missing, status |-> Missing, cmdline |-> Missing]

\* the states the files of process p can be read in during a scan
FileStates(p) ==
    { GoodFiles(p),
      Gone,
      [GoodFiles(p) EXCEPT !.status = Missing, !.cmdline = Missing],
      [GoodFiles(p) EXCEPT !.cmdline = Missing],
      [GoodFiles(p) EXCEPT !.cmdline = Unreadable],
      [GoodFiles(p) EXCEPT !.status = Unreadable],
      [GoodFiles(p) EXCEPT !.stat = Data(<<"1", BadByte>>)],
      [GoodFiles(p) EXCEPT !.stat = Data(BadStateStat)],
      [GoodFiles(p) EXCEPT !.status = Data(NoTgidStatus)],
      [GoodFiles(p) EXCEPT !.cmdline = Data(<<"a", BadByte, NUL>>)] }

(***************************************************************************)
(* Spec: a PidIter scan.  The listing is what read_dir produces; the files *)
(* are read when next() reaches their entry, and a listed process may exit *)
(* before that.                                                            *)
(***************************************************************************)
NameEntry(n) == [kind |-> "ok", name |-> n]

SelfName == <<"s", "e", "l", "f">>

\* an entry of the listing together with the files below it
Slots ==
    {[entry |-> NameEntry(to_string(p.pid)), files |-> f] :
         p \in {Proc1}, f \in FileStates(Proc1)}
    \cup {[entry |-> NameEntry(to_string(p.pid)), files |-> f] :
         p \in {Proc5}, f \in FileStates(Proc5)}
    \cup {[entry |-> NameEntry(n), files |-> GoodFiles(Proc5)] :
         n \in {<<"+", "5">>, <<"-", "5">>, SelfName}}
    \cup {[entry |-> [kind |-> k, name |-> <<>>], files |-> Gone] :
         k \in {"ioerr", "nonutf8"}}

\* a directory holds each name once
DistinctNames(sl) ==
    \A i, j \in 1..Len(sl) :
        (i # j /\ sl[i].entry.kind = "ok" /\ sl[j].entry.kind = "ok")
            => sl[i].entry.name # sl[j].entry.name

Queries ==
    { [type |-> "NoneQuery"],
      [type |-> "PidQuery", tid |-> 5],
      [type |-> "PpidQuery", tid |-> 1],
      [type |-> "NameQuery", text |-> <<"a">>],
      [type |-> "CmdlineQuery", text |-> <<" ", "-">>] }

Init ==
    /\ \E sl \in {t \in SeqsUpTo(Slots, MaxEntries) : DistinctNames(t)} :
          /\ listing = [i \in 1..Len(sl) |-> sl[i].entry]
          /\ fs = [n \in {sl[i].entry.name : i \in {j \in 1..Len(sl) : sl[j].entry.kind = "ok"}}
                      |-> (CHOOSE x \in {sl[i] : i \in 1..Len(sl)} :
                              x.entry.kind = "ok" /\ x.entry.name = n).files]
    /\ query \in Queries
    /\ pos = 0
    /\ out = <<>>
    /\ log = <<>>
    /\ exhausted = FALSE
    /\ InitLookupIdle
    /\ InitBuild
    /\ InitParsersIdle("")

\* Returned as it would be if an error item ended the iteration
Returned_fused(r) ==
    /\ pos' = IF r.item.some /\ ~r.item.val.ok THEN Len(listing) ELSE r.pos
    /\ log' = log \o r.seen
    /\ out' = IF r.item.some THEN Append(out, [idx |-> r.pos, item |-> r.item.val])
              ELSE out
    /\ exhausted' = ~r.item.some

\* Returned as it would be if the listing were read again from its start
\* after each item
Returned_restarted(r) ==
    /\ pos' = IF r.item.some THEN 0 ELSE r.pos
    /\ log' = log \o r.seen
    /\ out' = IF r.item.some THEN Append(out, [idx |-> r.pos, item |-> r.item.val])
              ELSE out
    /\ exhausted' = ~r.item.some

\* the state after a call of next() that consumed r.seen and returned r.item
Returned(r) ==
    /\ pos' = r.pos
    /\ log' = log \o r.seen
    /\ out' = IF r.item.some THEN Append(out, [idx |-> r.pos, item |-> r.item.val])
              ELSE out
    /\ exhausted' = ~r.item.some

\* one call of PidIter::next
IterNext ==
    /\ ~exhausted
    /\ Returned(NextFrom(listing, fs, query, pos + 1, <<>>))
    /\ UNCHANGED <<listing, fs, query, lookupVars, statVars, buildVars, matchVars, tidVars, memVars,
                   treeVars,
                   statusVars, cmdlineVars, decodeVars>>

\* a listed process whose entry has not been reached exits: its directory
\* disappears
ProcExit(i) ==
    /\ i > pos
    /\ listing[i].kind = "ok"
    /\ fs[listing[i].name] # Gone
    /\ fs' = [fs EXCEPT ![listing[i].name] = Gone]
    /\ UNCHANGED <<listing, query, pos, out, log, exhausted, lookupVars, statVars,
                   buildVars, matchVars, tidVars, memVars,
                   treeVars, statusVars, cmdlineVars, decodeVars>>

Next ==
    \/ IterNext
    \/ \E i \in 1..Len(listing) : ProcExit(i)

Spec == Init /\ [][Next]_vars


(***************************************************************************)
(* SpecLookup: a single lookup Pid::new(pid).  Each file of the process is *)
(* a sample: the file, the operation its reader is expected to fail in     *)
(* ("ok": none) and why.                                                   *)
(***************************************************************************)
Sample(file, expect, why) == [file |-> file, expect |-> expect, why |-> why]

StatSamples(p) ==
    { Sample(Missing, "Opening", "gone"),
      Sample(Unreadable, "Reading", "io"),
      Sample(Data(<<"1", BadByte>>), "Parsing", "utf8"),
      Sample(Data(BadStateStat), "Parsing", "structure"),
      Sample(Data(<<"1", " ", "a">>), "Parsing", "structure"),
      Sample(Data(<<"1", " ", "(", "a", ")", " ", "R", " ", "0">>),
             "ParsingField", "field"),
      Sample(Data(GoodStatOf(p)), "ok", "ok") }

StatusSamples(p) ==
    { Sample(Missing, "Opening", "gone"),
      Sample(Unreadable, "Reading", "io"),
      Sample(Data(<<"N", BadByte, "\n">>), "Reading", "utf8line"),
      Sample(Data(NoTgidStatus), "ParsingField", "field"),
      Sample(Data(NoColonStatus), "ParsingField", "structure"),
      Sample(Data(GoodStatusOf(p)), "ok", "ok") }

CmdlineSamples(p) ==
    { Sample(Missing, "Opening", "gone"),
      Sample(Unreadable, "Reading", "io"),
      Sample(Data(<<"a", BadByte, NUL>>), "Parsing", "utf8"),
      Sample(Data(p.cmdline), "ok", "ok") }

Targets ==
    UNION { [pid : {p.pid}, stat : StatSamples(p), status : StatusSamples(p),
             cmdline : CmdlineSamples(p)] : p \in {Proc1, Proc5} }

\* /proc as the lookup finds it
TargetFs(t) ==
    [d \in {to_string(t.pid)} |->
        [stat |-> t.stat.file, status |-> t.status.file, cmdline |-> t.cmdline.file]]

InitLookup ==
    /\ target \in Targets
    /\ lookup = NotParsed
    /\ InitScanIdle
    /\ InitBuild
    /\ InitParsersIdle("")

\* Pid::new
PidNew ==
    /\ lookup = NotParsed
    /\ lookup' = new_dir(TargetFs(target), target.pid)
    /\ UNCHANGED <<target, scanVars, statVars, buildVars, matchVars, tidVars, memVars,
                   treeVars, statusVars,
                   cmdlineVars, decodeVars>>

NextLookup == PidNew

SpecLookup == InitLookup /\ [][NextLookup]_vars

(***************************************************************************)
(* SpecStatus: PidStatus::parse_string applied to status records.          *)
(*                                                                         *)
(* A record is written from its lines: 'key: value' lines (key, val) and   *)
(* raw lines (key "", val the text of the line).                           *)
(***************************************************************************)
KindOf(name) == StatusKeys[CHOOSE j \in 1..Len(StatusKeys) : StatusKeys[j].name = name].kind

VmKeys == {n \in StatusKeyNames : KindOf(n) = "mem"}

\* a valid value for each key
GoodValue(name) ==
    CASE KindOf(name) = "string" -> <<"s", "h">>
      [] KindOf(name) = "i32" -> <<"7">>
      [] KindOf(name) = "u32" -> <<"6", "4">>
      [] KindOf(name) = "uids" -> Quad
      [] KindOf(name) = "mem" -> <<"4", " ", "k", "B">>

KeyLine(name, value) == [key |-> name, val |-> value]
RawLine(text) == [key |-> "", val |-> text]

LineText(l) == IF l.key = "" THEN l.val \o <<"\n">> ELSE StatusLine(l.key, l.val)

TextOf(lines) == Concat([i \in 1..Len(lines) |-> LineText(lines[i])])

\* a record to parse: its lines, its text, and what the shape is about (a
\* key, a line number or a choice, the tokens of a Uid or Gid value)
StatusShape(kind, lines, key, at) ==
    [kind |-> kind, lines |-> lines, text |-> TextOf(lines), key |-> key, at |-> at,
     toks |-> <<>>]

\* the nine keys the code unwraps, each with a valid value
AllBase == [i \in 1..Len(StatusUnwrapped) |->
               KeyLine(StatusUnwrapped[i], GoodValue(StatusUnwrapped[i]))]

\* the lines of AllBase whose key is in P
BaseLines(P) == SelectSeq(AllBase, LAMBDA l : l.key \in P)

\* lines of keys the parser does not know, and of a Vm key
ExtraLines ==
    << RawLine(<<"N", "g", "i", "d", ":", "\t", "0">>),
       KeyLine("VmRSS", GoodValue("VmRSS")),
       RawLine(<<"G", "r", "o", "u", "p", "s", ":", "\t">>) >>

InsertLine(lines, k, l) == SubSeq(lines, 1, k) \o <<l>> \o SubSeq(lines, k + 1, Len(lines))

\* records whose lines all parse, holding any subset of the nine keys
KeyShapes ==
    { StatusShape("keys", BaseLines(P) \o extra, "", 0) :
        P \in SUBSET {StatusUnwrapped[i] : i \in 1..Len(StatusUnwrapped)},
        extra \in {<<>>, ExtraLines} }

\* lines without a colon
NoColonLines == { <<"N", "a", "m", "e">>, <<>>, <<"x", " ", "y">> }

BadPidLine == KeyLine("Pid", <<"x">>)

\* records with one line without a colon after `at` lines that parse
NoColonShapes ==
    UNION { { StatusShape("nocolon", InsertLine(BaseLines(P), k, RawLine(raw)), "", k) :
                k \in 0..Len(BaseLines(P)), raw \in NoColonLines } :
            P \in { {}, {"Name"}, {"Threads", "Pid"},
                    {StatusUnwrapped[i] : i \in 1..Len(StatusUnwrapped)} } }
    \cup
    \* the same after a line that parses and before a line whose value is bad
    { StatusShape("nocolon", <<KeyLine("Name", <<"a">>), RawLine(raw), BadPidLine>>, "", 1) :
        raw \in NoColonLines }
    \cup
    \* and after a line whose value is bad: the line is never reached
    { StatusShape("badfirst", <<BadPidLine, RawLine(raw)>> \o AllBase, "Pid", 1) :
        raw \in NoColonLines }

\* two valid values for each kind of key, with what they stand for
DupValues(kind) ==
    CASE kind = "string" -> << [text |-> <<"a">>, is |-> <<"a">>],
                               [text |-> <<"b", " ", "c">>, is |-> <<"b", " ", "c">>] >>
      [] kind \in {"i32", "u32"} -> << [text |-> <<"9">>, is |-> 9],
                                       [text |-> <<"1", "2">>, is |-> 12] >>
      [] kind = "uids" ->
            << [text |-> <<"1", " ", "2", " ", "3", " ", "4">>, is |-> <<1, 2, 3, 4>>],
               [text |-> <<"5", "\t", "6", "\t", "7", "\t", "8">>, is |-> <<5, 6, 7, 8>>] >>
      [] kind = "mem" ->
            << [text |-> <<"8", " ", "k", "B">>, is |-> Some(<<8192, 0, 0, 0>>)],
               [text |-> <<"1", " ", "k", "B">>, is |-> Some(<<1024, 0, 0, 0>>)] >>

\* records in which key occurs on two or three lines, the value
\* DupValues[at] on the last of them
DupShapes ==
    { StatusShape("dup",
                  <<KeyLine(k, DupValues(KindOf(k))[3 - j].text)>>
                     \o (IF thrice THEN <<KeyLine(k, DupValues(KindOf(k))[j].text)>> ELSE <<>>)
                     \o BaseLines({n \in StatusKeyNames : n # k})
                     \o <<KeyLine(k, DupValues(KindOf(k))[j].text)>>,
                  k, j) :
        k \in StatusKeyNames, j \in 1..2, thrice \in BOOLEAN }

\* 2^54 - 1, 2^54, 2^55 + 1 and 2^64 in decimal digits
Pow54Less1 == <<"1","8","0","1","4","3","9","8","5","0","9","4","8","1","9","8","3">>
Pow54 == <<"1","8","0","1","4","3","9","8","5","0","9","4","8","1","9","8","4">>
Pow55Plus1 == <<"3","6","0","2","8","7","9","7","0","1","8","9","6","3","9","6","9">>
Pow64 == <<"1","8","4","4","6","7","4","4","0","7","3","7","0","9","5","5","1","6","1","6">>

\* the numbers of the Vm values
MemNumbers ==
    { <<"0">>, <<"1">>, <<"2", "0", "8", "9", "6">>, <<"0", "0", "7">>,
      Pow54Less1, Pow54, Pow55Plus1, MaxDigits("u64"), Pow64 }

\* complete records with one Vm line 'key: <n> kB' as line `at`
MemShapes ==
    { StatusShape("mem", InsertLine(AllBase, Len(AllBase) - 1, KeyLine(k, gap \o n \o kB)),
                  k, Len(AllBase)) :
        k \in VmKeys, n \in MemNumbers, gap \in {<<>>, <<" ", " ">>} }

\* tokens of a Uid or Gid value
UidTokenSet == { <<"7">>, <<"a">>, <<"4", "2", "9", "4", "9", "6", "7", "2", "9", "6">> }

UidTokenLists ==
    SeqsUpTo(UidTokenSet, MaxUidTokens)
      \cup { << <<"2","1","4","7","4","8","3","6","4","7">>, <<"0">>, <<"1","0","0","0">>, <<"0","7">> >>,
             << <<"+","5">>, <<"0">>, <<"0">>, <<"0">> >>,
             << <<"-","1">>, <<"0">>, <<"0">>, <<"0">> >>,
             << <<"1">>, <<"2">>, <<"3">>, <<"4">> >>,
             << <<"1">>, <<"2">>, <<"3">>, <<"4">>, <<"5">> >> }

\* complete records whose Uid or Gid line (line `at`) holds the tokens
\* joined by the separator
UidShapes ==
    { [StatusShape("uids",
                   [AllBase EXCEPT ![i] = KeyLine(AllBase[i].key, Join(toks, sep))],
                   AllBase[i].key, i) EXCEPT !.toks = toks] :
        i \in {j \in 1..Len(AllBase) : AllBase[j].key \in {"Uid", "Gid"}},
        toks \in UidTokenLists, sep \in {<<" ">>, <<"\t">>, <<" ", "\t", " ">>} }

StatusShapes == KeyShapes \cup NoColonShapes \cup DupShapes \cup MemShapes \cup UidShapes

InitStatus ==
    /\ statusInput \in StatusShapes
    /\ statusResult = NotParsed
    /\ InitBuild
    /\ InitScanIdle
    /\ InitLookupIdle
    /\ InitParsersIdle("status")

\* the caller hands the lines of the text to PidStatus::parse_string
ParseStatus ==
    /\ statusResult = NotParsed
    /\ statusResult' = status_parse_string(ReadLines(statusInput.text), overflow_checks)
    /\ UNCHANGED <<statusInput, scanVars, lookupVars, statVars, buildVars, matchVars, tidVars, memVars,
                   treeVars,
                   cmdlineVars, decodeVars>>

NextStatus == ParseStatus

SpecStatus == InitStatus /\ [][NextStatus]_vars

(***************************************************************************)
(* SpecCmdline: Pid::read_cmdline applied to the content of a cmdline file.*)
(***************************************************************************)
CmdlineChars == {"a", "b", " ", NUL, BadByte}

CmdlineContents == SeqsUpTo(CmdlineChars, MaxCmdlineLen)

InitCmdline ==
    /\ cmdlineInput \in CmdlineContents
    /\ cmdlineResult = NotParsed
    /\ InitBuildIdle
    /\ InitScanIdle
    /\ InitLookupIdle
    /\ InitParsersIdle("cmdline")

\* the file is opened and read by Pid::read_cmdline
ReadCmdline ==
    /\ cmdlineResult = NotParsed
    /\ cmdlineResult' = read_cmdline(Data(cmdlineInput))
    /\ UNCHANGED <<cmdlineInput, scanVars, lookupVars, statVars, buildVars, matchVars, tidVars, memVars,
                   treeVars,
                   statusVars, decodeVars>>

NextCmdline == ReadCmdline

SpecCmdline == InitCmdline /\ [][NextCmdline]_vars

(***************************************************************************)
(* SpecQuery: PidQuery::from_str applied to query strings.                 *)
(***************************************************************************)
QueryKeyTexts ==
    { <<"p", "i", "d">>, <<"P", "i", "d">>, <<"P", "I", "D">>,
      <<"p", "p", "i", "d">>, <<"p", "P", "i", "d">>, <<"P", "P", "I", "D">>,
      <<"n", "a", "m", "e">>, <<"N", "A", "M", "E">>, <<"N", "a", "m", "e">>,
      <<"c", "m", "d", "l", "i", "n", "e">>, <<"C", "m", "d", "L", "i", "n", "e">>,
      <<>>, <<"x">>, <<"p", "i">>, <<"p", "i", "d", "s">>, <<" ", "p", "i", "d">>,
      <<"t", "i", "d">>, <<"p", "i", "d", " ">>, <<"5">> }

QueryValueTexts ==
    { <<"5">>, <<"-", "5">>, <<"+", "5">>, <<"0", "0", "7">>, <<>>, <<"a">>,
      <<"5", "a">>, <<" ", "5">>, <<"a", "=", "b">>, <<"=">>, <<"5", "=">>,
      <<"2", "1", "4", "7", "4", "8", "3", "6", "4", "7">>,
      <<"2", "1", "4", "7", "4", "8", "3", "6", "4", "8">>,
      <<"-">>, <<"b", " ", "c">> }

\* query strings: bare tokens and 'key=value'
QueryTexts ==
    QueryKeyTexts \cup QueryValueTexts
      \cup { k \o <<"=">> \o v : k \in QueryKeyTexts, v \in QueryValueTexts }

InitQuery ==
    /\ queryInput \in QueryTexts
    /\ queryResult = NotParsed
    /\ InitBuildIdle
    /\ InitScanIdle
    /\ InitLookupIdle
    /\ InitParsersIdle("query")

\* the caller decodes the string (PidQuery::from_str)
DecodeQuery ==
    /\ queryResult = NotParsed
    /\ queryResult' = from_str(queryInput)
    /\ UNCHANGED <<queryInput, scanVars, lookupVars, statVars, buildVars, matchVars, tidVars, memVars,
                   treeVars,
                   statusVars, cmdlineVars>>

NextQuery == DecodeQuery

SpecQuery == InitQuery /\ [][NextQuery]_vars

(***************************************************************************)
(* SpecMatch: Pid::query applied to a process record and a query.  The     *)
(* record holds the fields Pid::query reads; the query is given as such or *)
(* decoded from the caller's string by PidQuery::from_str.                 *)
(***************************************************************************)
MatchComms == { <<>>, <<"a">>, <<"a", "b">>, <<"b", " ", "a">> }

MatchCmdlines ==
    { << <<>> >>, << <<"a">> >>, << <<"a">>, <<"-", "b">> >>,
      << <<"a", "b">>, <<>> >> }

MatchRecords ==
    { [pid |-> p, stat |-> [pid |-> p, comm |-> c, ppid |-> pp], cmdline |-> cl] :
          p \in {1, 5}, pp \in {0, 1, 5}, c \in MatchComms, cl \in MatchCmdlines }

\* query strings that decode
MatchQueryTexts ==
    { <<>>, <<"5">>, <<"a">>, <<"b", "a">>,
      <<"p", "p", "i", "d", "=", "1">>, <<"p", "i", "d", "=", "1">>,
      <<"n", "a", "m", "e", "=">>, <<"n", "a", "m", "e", "=", " ", "a">>,
      <<"c", "m", "d", "l", "i", "n", "e", "=", "a", " ", "-">>,
      <<"c", "m", "d", "l", "i", "n", "e", "=", "b", " ">>,
      <<"c", "m", "d", "l", "i", "n", "e", "=">> }

MatchQueries ==
    { [q |-> q, src |-> None] : q \in Queries }
      \cup { [q |-> create_query(t).val, src |-> Some(t)] : t \in MatchQueryTexts }

InitMatch ==
    /\ \E r \in MatchRecords, mq \in MatchQueries :
          matchInput = [rec |-> r, q |-> mq.q, src |-> mq.src]
    /\ matchResult = None
    /\ InitBuildIdle
    /\ InitScanIdle
    /\ InitLookupIdle
    /\ InitParsersIdle("match")

\* Pid::query, as proc_dir_filter and tasks_query call it
Match ==
    /\ ~matchResult.some
    /\ matchResult' = Some(Pid_query(matchInput.rec, matchInput.q))
    /\ UNCHANGED <<matchInput, scanVars, lookupVars, statVars, buildVars,
                   statusVars, cmdlineVars, decodeVars, tidVars, memVars,
                   treeVars>>

NextMatch == Match

SpecMatch == InitMatch /\ [][NextMatch]_vars

(***************************************************************************)
(* SpecTid: a TidIter scan.  The files and the task directory of a process *)
(* are as they are found when the scan reaches them: a process whose files *)
(* are read and whose task directory is missing exited in between.         *)
(***************************************************************************)
\* a thread of process p that is not its leader
ThreadOf(p) == [pid |-> p.pid + 1, comm |-> p.comm, ppid |-> p.ppid, cmdline |-> p.cmdline]

ThreadStat(p) == StatRecord(ThreadOf(p).pid, p.comm, p.ppid)

\* the status record of the thread: Tgid is the process, Pid the thread
ThreadStatus(p) ==
    StatusLine("Name", p.comm)
      \o StatusLine("Tgid", to_string(p.pid))
      \o StatusLine("Pid", to_string(ThreadOf(p).pid))
      \o StatusLine("PPid", to_string(p.ppid))
      \o StatusLine("TracerPid", <<"0">>)
      \o StatusLine("Uid", Quad)
      \o StatusLine("Gid", Quad)
      \o StatusLine("FDSize", <<"6", "4">>)
      \o StatusLine("Threads", <<"2">>)

ThreadFiles(p) ==
    [stat |-> Data(ThreadStat(p)), status |-> Data(ThreadStatus(p)),
     cmdline |-> Data(p.cmdline)]

\* an entry of a task directory with the files below it
LeaderSlots(p) ==
    {[entry |-> NameEntry(to_string(p.pid)), files |-> f] :
        f \in {GoodFiles(p), [GoodFiles(p) EXCEPT !.stat = Data(BadStateStat)]}}

ThreadSlots(p) ==
    {[entry |-> NameEntry(to_string(ThreadOf(p).pid)), files |-> f] :
        f \in {ThreadFiles(p), Gone,
               [ThreadFiles(p) EXCEPT !.status = Unreadable],
               [ThreadFiles(p) EXCEPT !.stat = Data(BadStateStat)]}}

TaskSlots(p) ==
    LeaderSlots(p) \cup ThreadSlots(p)
      \cup {[entry |-> [kind |-> "ioerr", name |-> <<>>], files |-> Gone]}

\* the task directory made of the slots sl
TaskDir(sl) ==
    [st |-> "ok",
     entries |-> [i \in 1..Len(sl) |-> sl[i].entry],
     files |-> [n \in {sl[i].entry.name : i \in {j \in 1..Len(sl) : sl[j].entry.kind = "ok"}}
                   |-> (CHOOSE x \in {sl[i] : i \in 1..Len(sl)} :
                           x.entry.kind = "ok" /\ x.entry.name = n).files]]

\* the task directories process p can be found with: none, or one that
\* lists its leader
TaskDirs(p) ==
    {NoTaskDir}
      \cup {TaskDir(sl) : sl \in {t \in SeqsUpTo(TaskSlots(p), MaxThreads) :
                                     /\ DistinctNames(t)
                                     /\ \E i \in 1..Len(t) : t[i] \in LeaderSlots(p)}}

\* a listed process: its entry, its files and its task directory
TidSlots(p) ==
    {[entry |-> NameEntry(to_string(p.pid)), files |-> GoodFiles(p), dir |-> d] :
        d \in TaskDirs(p)}
    \cup {[entry |-> NameEntry(to_string(p.pid)), files |-> f, dir |-> NoTaskDir] :
        f \in {Gone, [GoodFiles(p) EXCEPT !.stat = Data(BadStateStat)]}}

TidQueries == { [type |-> "NoneQuery"], [type |-> "PidQuery", tid |-> 5] }

\* the function from the names of the slots to field f of their slot
SlotMap(sl, f) ==
    [n \in {sl[i].entry.name : i \in 1..Len(sl)}
        |-> (CHOOSE x \in {sl[i] : i \in 1..Len(sl)} : x.entry.name = n)[f]]

InitTid ==
    /\ \E sl \in {t \in SeqsUpTo(TidSlots(Proc1) \cup TidSlots(Proc5), MaxEntries) :
                     DistinctNames(t)} :
          /\ listing = [i \in 1..Len(sl) |-> sl[i].entry]
          /\ fs = SlotMap(sl, "files")
          /\ taskdirs = SlotMap(sl, "dir")
    /\ query \in TidQueries
    /\ pos = 0
    /\ out = <<>>
    /\ log = <<>>
    /\ exhausted = FALSE
    /\ task_iter = None
    /\ aborted = FALSE
    /\ tidLog = <<>>
    /\ InitLookupIdle
    /\ InitBuildIdle
    /\ InitParsersIdle("tid")

\* the state after a call of TidIter::next that returned or panicked
TidReturned(r) ==
    /\ pos' = r.pos
    /\ task_iter' = r.task_iter
    /\ aborted' = r.panic
    /\ tidLog' = tidLog \o r.seen
    /\ out' = IF r.ret.some THEN Append(out, [idx |-> r.pos, item |-> r.ret.val])
              ELSE out
    /\ exhausted' = (~r.panic /\ ~r.ret.some)

\* one call of TidIter::next
TidNext ==
    /\ ~exhausted
    /\ ~aborted
    /\ TidReturned(TidLoop(listing, fs, taskdirs, query, pos, task_iter, <<>>))
    /\ UNCHANGED <<listing, fs, query, log, taskdirs, lookupVars, statVars,
                   buildVars, statusVars, cmdlineVars, decodeVars, matchVars,
                   memVars, treeVars>>

\* the caller asks the record the scan returned last, a thread's, for its
\* tasks; /proc/[tid]/task is the task directory of the thread's process
ThreadTasks ==
    /\ ~aborted
    /\ out # <<>>
    /\ out[Len(out)].item.ok
    /\ \A i \in 1..Len(tidLog) :
          tidLog[i].kind = "thread" => tidLog[i].idx # Len(out)
    /\ tidLog' = Append(tidLog,
          [kind |-> "thread", idx |-> Len(out),
           tasks |-> tasks(out[Len(out)].item.val,
                           [n \in {to_string(out[Len(out)].item.val.pid)}
                               |-> taskdirs[listing[out[Len(out)].idx].name]])])
    /\ UNCHANGED <<scanVars, taskdirs, task_iter, aborted, lookupVars, statVars,
                   buildVars, statusVars, cmdlineVars, decodeVars, matchVars,
                   memVars, treeVars>>

\* a listed process whose entry has not been reached exits: its directory
\* disappears, the task directory with it
TidProcExit(i) ==
    /\ ~aborted
    /\ i > pos
    /\ fs[listing[i].name] # Gone
    /\ fs' = [fs EXCEPT ![listing[i].name] = Gone]
    /\ taskdirs' = [taskdirs EXCEPT ![listing[i].name] = NoTaskDir]
    /\ UNCHANGED <<listing, query, pos, out, log, exhausted, task_iter, aborted,
                   tidLog, lookupVars, statVars, buildVars, statusVars,
                   cmdlineVars, decodeVars, matchVars, memVars, treeVars>>

NextTid ==
    \/ TidNext
    \/ ThreadTasks
    \/ \E i \in 1..Len(listing) : TidProcExit(i)

SpecTid == InitTid /\ [][NextTid]_vars

(***************************************************************************)
(* SpecMem: Meminfo::new applied to /proc/meminfo.  A report has one line  *)
(* 'Key:   <n> kB' per key (the huge-page counters have no unit).          *)
(***************************************************************************)
\* the keys of a report: all but the derived ones
ReportNames ==
    [i \in 1..(Len(MemFields) - Cardinality(DerivedNames)) |-> MemFields[i].name]

NoUnitNames == {"HugePages_Total", "HugePages_Free", "HugePages_Rsvd", "HugePages_Surp"}

MeminfoLine(name, digits) ==
    MemKey(name) \o <<":", " ", " ", " ">> \o digits
      \o (IF name \in NoUnitNames THEN <<>> ELSE kB) \o <<"\n">>

\* the report whose keys have the values of vals (100 where vals has none),
\* without the line of key skip
MeminfoReport(vals, skip) ==
    Concat([i \in 1..Len(ReportNames) |->
              IF ReportNames[i] = skip THEN <<>>
              ELSE MeminfoLine(ReportNames[i],
                               IF ReportNames[i] \in DOMAIN vals THEN vals[ReportNames[i]]
                               ELSE <<"1", "0", "0">>)])

MeminfoValues == { <<"0">>, <<"3">>, <<"1", "0">>, MaxDigits("u64") }

MeminfoShape(kind, vals, skip, file) ==
    [kind |-> kind, vals |-> vals, skip |-> skip, file |-> file]

NoVals == [n \in {} |-> <<>>]

\* lines the parser cannot take
BadMeminfoLines ==
    { <<"\n">>, <<"F", "o", "o", ":", "\n">>,
      <<"F", "o", "o", ":", " ", "x", " ", "k", "B", "\n">>,
      <<"F", "o", "o", ":", " ">> \o Pow64 \o kB \o <<"\n">> }

MeminfoShapes ==
    { MeminfoShape("main", v, "", Data(MeminfoReport(v, ""))) :
        v \in [{"MemTotal", "MemFree", "Cached", "Buffers"} -> MeminfoValues] }
    \cup { MeminfoShape("cache", v, "", Data(MeminfoReport(v, ""))) :
        v \in [{"Cached", "Slab", "SReclaimable"} -> MeminfoValues] }
    \cup { MeminfoShape("swap", v, "", Data(MeminfoReport(v, ""))) :
        v \in [{"SwapTotal", "SwapFree"} -> MeminfoValues] }
    \cup { MeminfoShape("missing", NoVals, ReportNames[i], Data(MeminfoReport(NoVals, ReportNames[i]))) :
        i \in 1..Len(ReportNames) }
    \cup { MeminfoShape("malformed", NoVals, "", Data(l \o MeminfoReport(NoVals, ""))) :
        l \in BadMeminfoLines }
    \cup { MeminfoShape("dup", NoVals, "",
                        Data(MeminfoReport(NoVals, "") \o MeminfoLine("MemTotal", d))) :
        d \in {<<"3", "0", "0">>, <<"3">>} }
    \cup { MeminfoShape("nofile", NoVals, "", f) :
        f \in {Missing, Unreadable, Data(<<"M", BadByte, "\n">>)} }

InitMem ==
    /\ memInput \in MeminfoShapes
    /\ memResult = None
    /\ InitBuild
    /\ InitScanIdle
    /\ InitLookupIdle
    /\ InitParsersIdle("mem")

\* Meminfo::new
ReadMeminfo ==
    /\ memResult = None
    /\ memResult' = Some(Meminfo_new(memInput.file, overflow_checks))
    /\ UNCHANGED <<memInput, scanVars, lookupVars, statVars, buildVars, statusVars,
                   cmdlineVars, decodeVars, matchVars, tidVars, treeVars>>

NextMem == ReadMeminfo

SpecMem == InitMem /\ [][NextMem]_vars

(***************************************************************************)
(* SpecTree: psq -T on one list of records.                                *)
(***************************************************************************)
TreePids == 1..3
TreeRecords == {[pid |-> p, ppid |-> pp] : p \in TreePids, pp \in 0..3}

TreeInputs ==
    UNION {[1..n -> TreeRecords] : n \in 0..MaxTreeLen}

InitTree ==
    /\ treeInput \in TreeInputs
    /\ treeResult = None
    /\ InitBuildIdle
    /\ InitScanIdle
    /\ InitLookupIdle
    /\ InitParsersIdle("tree")

\* main, from the call of treeify_names to the rows of the table
PrintTree ==
    /\ treeResult = None
    /\ treeResult' = Some(main_tree(treeInput))
    /\ UNCHANGED <<treeInput, scanVars, lookupVars, statVars, buildVars, statusVars,
                   cmdlineVars, decodeVars, matchVars, tidVars, memVars>>

NextTree == PrintTree

SpecTree == InitTree /\ [][NextTree]_vars

(***************************************************************************)
(* Properties of the stat parser (checked under SpecStat).                 *)
(***************************************************************************)
StatParsed == statResult # NotParsed

FirstOpen(text) == Min(Positions(text, "("))
LastClose(text) == Max(Positions(text, ")"))

\* C8: for every record 'PID (NAME) SUFFIX' with a well-formed suffix,
\* whatever NAME contains, parsing succeeds with the pid that was written
\* before the first '(' and with a name equal, character for character, to
\* the text between the first '(' and the last ')' of the record (which is
\* the NAME that was written).
C8_NameBetweenOutermostParens ==
    (StatParsed /\ statInput.kind = "wellformed") =>
        /\ statResult.ok
        /\ statResult.val.pid = statInput.pid
        /\ statResult.val.comm = statInput.name
        /\ statResult.val.comm =
              SubSeq(statInput.text, FirstOpen(statInput.text) + 1,
                     LastClose(statInput.text) - 1)

\* C8 witness: a NAME holding ')' before '(' and a space was parsed and
\* recovered verbatim.
C8_Witness ==
    /\ StatParsed
    /\ statInput.kind = "wellformed"
    /\ statInput.name = <<")", " ", "(">>
    /\ statResult.ok
    /\ statResult.val.comm = <<")", " ", "(">>
    /\ statResult.val.pid = 42

RECURSIVE DropEmptyFront(_)
DropEmptyFront(ps) ==
    IF ps # <<>> /\ Head(ps) = <<>> THEN DropEmptyFront(Tail(ps)) ELSE ps

RECURSIVE DropEmptyBack(_)
DropEmptyBack(ps) ==
    IF ps # <<>> /\ ps[Len(ps)] = <<>>
    THEN DropEmptyBack(SubSeq(ps, 1, Len(ps) - 1)) ELSE ps

\* the fields a written suffix holds: an empty piece at either end is only
\* whitespace around the suffix, not a field
SuffixFields(pieces) == DropEmptyBack(DropEmptyFront(pieces))

StateCodes == { <<"R">>, <<"S">>, <<"D">>, <<"Z">>, <<"T">>, <<"t">>,
                <<"X">>, <<"x">>, <<"K">>, <<"W">>, <<"P">> }

\* the statement of C9 for a suffix whose first m numbers after the state
\* are mandatory and whose later numbers are optional
C9_Statement(m) ==
    (StatParsed /\ statInput.kind \in {"truncated", "odd"}) =>
      LET F == SuffixFields(statInput.pieces)
          tyOf(i) == IF i <= NumMandatory THEN StatNumFields[i].ty
                     ELSE StatOptFields[i - NumMandatory].ty
          nameOf(i) == IF i <= NumMandatory THEN StatNumFields[i].name
                       ELSE StatOptFields[i - NumMandatory].name
          present(i) == 1 + i <= Len(F)
          parses(i) == ParseInt(F[1 + i], tyOf(i)).ok
          numbers == NumMandatory + NumOptional
          hardFailure == ~statResult.ok /\ IsHard(statResult.err)
          stateOk == Len(F) >= 1 /\ F[1] \in StateCodes
          mandatoryOk == \A i \in 1..m : present(i) /\ parses(i)
          laterOk == \A i \in (m + 1)..numbers : present(i) => parses(i)
      IN  /\ ~stateOk => hardFailure
          /\ ~mandatoryOk => hardFailure
          /\ ~laterOk => hardFailure
          /\ (stateOk /\ mandatoryOk /\ laterOk) =>
                /\ statResult.ok
                /\ \A i \in (m + 1)..numbers :
                      /\ ~present(i) => statResult.val[nameOf(i)] = None
                      /\ present(i) => statResult.val[nameOf(i)].some

\* C9 (as stated): the state and the 35 numeric fields ppid through cnswap
\* are mandatory (absent or unparsable: a hard error); each later field is
\* optional (absent: None and success; present but unparsable: a hard
\* error).
C9_Original == C9_Statement(35)

\* C9 (amended): the same with the 34 numeric fields ppid through cnswap
\* as the mandatory ones, and the 15 fields exit_signal through exit_code
\* as the optional ones.
C9_Amended == C9_Statement(34)

\* C9 witness: a record cut right after cnswap (the state and 34 numbers)
\* was parsed: it succeeds and all 15 optional fields are None.
C9_Witness ==
    /\ StatParsed
    /\ statInput.kind = "truncated"
    /\ Len(statInput.pieces) = 35
    /\ statResult.ok
    /\ \A k \in 1..15 : statResult.val[StatOptFields[k].name] = None
    /\ Len(StatOptFields) = 15

\* C10: parsing a record that contains no '(' fails with the Parsing
\* error whose message is "finding opening paren".
C10_NoOpenParen ==
    (StatParsed /\ Positions(statInput.text, "(") = {}) =>
        statResult = Err("Parsing", "PidStat", "finding opening paren")

(***************************************************************************)
(* Properties of the scan (checked under Spec).                            *)
(***************************************************************************)
SoftOpers == {"Opening", "Reading"}
HardOpers == {"Parsing", "ParsingField"}

\* new_dir was called for the entry and failed with an error of opers
BuildFailed(l, opers) ==
    /\ l.built.some
    /\ ~l.built.val.ok
    /\ l.built.val.err.operation \in opers

\* new_dir was called for the entry and returned a record
BuildOk(l) == l.built.some /\ l.built.val.ok

\* the items next() returned for entry i
ItemsOf(i) == {k \in 1..Len(out) : out[k].idx = i}

\* the record satisfies the query (section 4.6 of the specification)
Satisfies(rec, q) ==
    CASE q.type = "PidQuery" -> rec.stat.pid = q.tid
      [] q.type = "PpidQuery" -> rec.stat.ppid = q.tid
      [] q.type = "NameQuery" ->
            \E a \in 1..(Len(rec.stat.comm) + 1), b \in 0..Len(rec.stat.comm) :
                SubSeq(rec.stat.comm, a, b) = q.text
      [] q.type = "CmdlineQuery" ->
            LET joined == Join(rec.cmdline, <<" ">>)
            IN  \E a \in 1..(Len(joined) + 1), b \in 0..Len(joined) :
                    SubSeq(joined, a, b) = q.text
      [] q.type = "NoneQuery" -> TRUE

\* C1: when building the record of a numerically named entry fails with a
\* soft error (Opening or Reading of its stat, status or cmdline file), the
\* iterator yields nothing for that entry, neither a record nor an error,
\* and the same call of next() goes on to the entries that remain.
C1_SoftErrorSkipped ==
    \A i \in 1..Len(log) :
        BuildFailed(log[i], SoftOpers) =>
            /\ ~log[i].item.some
            /\ ItemsOf(i) = {}
            /\ i < Len(listing) => Len(log) > i

\* C1 witness: a process that was gone when its status file was opened (its
\* stat had been read) was passed over, and a later entry gave a record.
C1_Witness ==
    \E i \in 1..Len(log) :
        /\ BuildFailed(log[i], SoftOpers)
        /\ log[i].built.val.err.file = "PidStatus"
        /\ \E k \in 1..Len(out) : out[k].idx > i /\ out[k].item.ok

\* C2: when building the record of an entry fails with a hard error
\* (Parsing or ParsingField), next() yields exactly that error for that
\* entry; the sequence does not end there: None is returned only when every
\* entry has been consumed, and each later entry whose record is built and
\* satisfies the query is still yielded.
C2_HardErrorYielded ==
    /\ \A i \in 1..Len(log) :
          BuildFailed(log[i], HardOpers) =>
              /\ log[i].item = Some(log[i].built.val)
              /\ \E k \in ItemsOf(i) : out[k].item = log[i].built.val
              /\ \A j \in (i + 1)..Len(log) :
                    (BuildOk(log[j]) /\ Satisfies(log[j].built.val.val, query))
                        => \E k \in ItemsOf(j) : out[k].item = log[j].built.val
    /\ exhausted => Len(log) = Len(listing)

\* C2 witness: the first item was the hard error of entry 1 and the second
\* item the record of entry 2; then the listing was exhausted.
C2_Witness ==
    /\ Len(out) = 2
    /\ BuildFailed(log[1], HardOpers)
    /\ out[1] = [idx |-> 1, item |-> log[1].built.val]
    /\ out[2].idx = 2
    /\ out[2].item.ok
    /\ exhausted

\* C3: every record yielded as Ok satisfies the query of the iterator; an
\* entry whose record is built and satisfies the query is yielded exactly
\* once, as that record; a record that does not match yields no item.
C3_QueryFilter ==
    /\ \A k \in 1..Len(out) : out[k].item.ok => Satisfies(out[k].item.val, query)
    /\ \A i \in 1..Len(log) :
          BuildOk(log[i]) =>
              IF Satisfies(log[i].built.val.val, query)
              THEN /\ Cardinality(ItemsOf(i)) = 1
                   /\ \A k \in ItemsOf(i) : out[k].item = log[i].built.val
              ELSE ItemsOf(i) = {}

\* C3 witness: under a name query one built record was dropped and a later
\* one yielded.
C3_Witness ==
    /\ query.type = "NameQuery"
    /\ \E i, j \in 1..Len(log) :
          /\ i < j
          /\ BuildOk(log[i]) /\ ItemsOf(i) = {}
          /\ BuildOk(log[j]) /\ ItemsOf(j) # {}

\* the name is a non-negative integer in decimal digits
IsDigits(name) == name # <<>> /\ \A i \in 1..Len(name) : name[i] \in Digits

\* C4: PidIter only considers entries whose name is a valid non-negative
\* integer: for an entry with any other name ('self', '-5', '+5') no record
\* construction is attempted and neither a record nor an error is yielded.
C4_OnlyNonNegativeNames ==
    \A i \in 1..Len(log) :
        (listing[i].kind = "ok" /\ ~IsDigits(listing[i].name)) =>
            /\ ~log[i].built.some
            /\ ~log[i].item.some

\* C5: the sequence is finite and non-restartable: entries are consumed in
\* the order of the listing, each at most once, each contributes at most
\* one item, so at most n items are yielded over a listing of n entries,
\* and None is returned once all n are consumed.
C5_FiniteSinglePass ==
    /\ pos = Len(log)
    /\ Len(log) <= Len(listing)
    /\ \A i \in 1..Len(log) : log[i].idx = i
    /\ \A i \in 1..Len(listing) : Cardinality(ItemsOf(i)) <= 1
    /\ \A k \in 1..Len(out) : out[k].idx \in 1..Len(log)
    /\ \A k, m \in 1..Len(out) : k < m => out[k].idx < out[m].idx
    /\ Len(out) <= Len(listing)
    /\ exhausted => pos = Len(listing)

\* C5 witness: a listing of two entries gave two items and then None.
C5_Witness ==
    /\ Len(listing) = 2
    /\ Len(out) = 2
    /\ exhausted

(***************************************************************************)
(* Properties of the single lookup (checked under SpecLookup).             *)
(***************************************************************************)
Looked == lookup # NotParsed

\* the reads of the lookup in the order stat, status, cmdline, each with the
\* file it reports errors for
Reads ==
    << [sample |-> target.stat, file |-> "PidStat"],
       [sample |-> target.status, file |-> "PidStatus"],
       [sample |-> target.cmdline, file |-> "PidCmdline"] >>

FailingReads == {i \in 1..3 : Reads[i].sample.expect # "ok"}

\* C6: Pid::new(pid) reads stat, then status, then cmdline, and returns a
\* record only if all three succeed; otherwise it returns the error of the
\* first failing step, soft or hard alike.
C6_FirstFailureReturned ==
    Looked =>
        IF FailingReads = {}
        THEN /\ lookup.ok
             /\ lookup.val.pid = target.pid
             /\ lookup.val.stat.pid = target.pid
             /\ lookup.val.status.Pid = target.pid
             /\ Len(lookup.val.cmdline) >= 1
        ELSE /\ ~lookup.ok
             /\ lookup.err.file = Reads[Min(FailingReads)].file
             /\ lookup.err.operation = Reads[Min(FailingReads)].sample.expect

\* C6 witness: stat was read, opening status failed (a soft error) and the
\* cmdline would have failed too: the lookup returned the error of status.
C6_Witness ==
    /\ Looked
    /\ target.stat.expect = "ok"
    /\ target.status.expect = "Opening"
    /\ target.cmdline.expect = "Parsing"
    /\ ~lookup.ok
    /\ lookup.err = ProcError("Opening", "PidStatus", NoMore)

\* C7: an error is soft exactly when its operation is Opening or Reading and
\* hard exactly when it is Parsing or ParsingField; invalid UTF-8 in a stat
\* or cmdline file and every field or structure failure give a hard error,
\* a missing or unreadable file a soft one.
C7_HardSoftClassification ==
    (Looked /\ ~lookup.ok) =>
        LET why == Reads[Min(FailingReads)].sample.why
        IN  /\ IsHard(lookup.err) <=> lookup.err.operation \in HardOpers
            /\ ~IsHard(lookup.err) <=> lookup.err.operation \in SoftOpers
            /\ why \in {"utf8", "structure", "field"} => IsHard(lookup.err)
            /\ why \in {"gone", "io"} => ~IsHard(lookup.err)

\* C7 witness: a stat file that is not valid UTF-8 gave a hard Parsing error.
C7_Witness ==
    /\ Looked
    /\ target.stat.why = "utf8"
    /\ ~lookup.ok
    /\ lookup.err.operation = "Parsing"
    /\ lookup.err.file = "PidStat"
    /\ IsHard(lookup.err)

(***************************************************************************)
(* Further properties of the stat parser (checked under SpecStat).         *)
(***************************************************************************)
\* the text after the first '(' of the record
AfterFirstOpen(text) == SubSeq(text, FirstOpen(text) + 1, Len(text))

\* C11: parsing a record in which no ')' occurs after the first '(' (even
\* if a ')' occurs before it) fails with the Parsing error on the stat file
\* whose message is "splitting comm".
C11_NoCloseParen ==
    (/\ StatParsed
     /\ Positions(statInput.text, "(") # {}
     /\ Positions(AfterFirstOpen(statInput.text), ")") = {})
        => statResult = Err("Parsing", "PidStat", "splitting comm")

\* C11 witness: the record '1 ) (a R', with a ')' only before the '(', was
\* parsed and gave "splitting comm".
C11_Witness ==
    /\ StatParsed
    /\ statInput.text = <<"1", " ", ")", " ", "(", "a", " ", "R">>
    /\ statResult = Err("Parsing", "PidStat", "splitting comm")

\* the state each code letter stands for
StateNames ==
    [c \in {"R", "S", "D", "Z", "T", "t", "X", "x", "K", "W", "P"} |->
        CASE c = "R" -> "Running" [] c = "S" -> "Sleeping" [] c = "D" -> "Waiting"
          [] c = "Z" -> "Zombie" [] c = "T" -> "Stopped" [] c = "t" -> "Tracing"
          [] c \in {"X", "x"} -> "Dead" [] c = "K" -> "Wakekill"
          [] c = "W" -> "Waking" [] c = "P" -> "Parked"]

IsStateCode(tok) == Len(tok) = 1 /\ tok[1] \in DOMAIN StateNames

\* C12: the first token after the last ')' is the state code, mapped as
\* R Running, S Sleeping, D Waiting, Z Zombie, T Stopped, t Tracing, X and x
\* Dead, K Wakekill, W Waking, P Parked; any other token, the empty one and
\* multi-character ones included, gives the Parsing error "parsing process
\* state", also when a numeric field after it is bad or missing (the state
\* is checked before every numeric field of the suffix).
C12_StateCode ==
    (StatParsed /\ statInput.kind = "state") =>
        IF IsStateCode(statInput.pieces[1])
        THEN IF Tail(statInput.pieces) = Tail(GoodPieces(FullLen))
             THEN /\ statResult.ok
                  /\ statResult.val.state = StateNames[statInput.pieces[1][1]]
             ELSE /\ ~statResult.ok
                  /\ statResult.err.operation = "ParsingField"
        ELSE statResult = Err("Parsing", "PidStat", "parsing process state")

\* C12 witness: a two-letter state token before a bad number was parsed and
\* gave the state error, not the error of the number.
C12_Witness ==
    /\ StatParsed
    /\ statInput.kind = "state"
    /\ statInput.pieces[1] = <<"R", "R">>
    /\ Len(statInput.pieces) > 1
    /\ statInput.pieces[2] = <<"x">>
    /\ statResult = Err("Parsing", "PidStat", "parsing process state")

(***************************************************************************)
(* Properties of the status parser (checked under SpecStatus).             *)
(***************************************************************************)
StatusParsed == statusResult # NotParsed

\* the keys that occur on the lines of the record
PresentKeys ==
    {statusInput.lines[i].key : i \in 1..Len(statusInput.lines)} \ {""}

\* C13: the status keys whose absence makes parsing fail are exactly Name,
\* Tgid, Pid, PPid, Uid, Gid, FDSize and Threads: a record whose lines all
\* parse is parsed successfully if and only if it holds these eight keys,
\* whatever other keys (TracerPid, the Vm keys) are absent.
C13_EightMandatoryKeys ==
    (StatusParsed /\ statusInput.kind = "keys") =>
        (statusResult.ok <=>
            {"Name", "Tgid", "Pid", "PPid", "Uid", "Gid", "FDSize", "Threads"}
                \subseteq PresentKeys)

\* the order in which absent keys are reported, and the message for each
MissingOrder ==
    <<"Name", "Tgid", "Pid", "PPid", "TracerPid", "Uid", "Gid", "FDSize", "Threads">>

MissingMessage ==
    [k \in {MissingOrder[i] : i \in 1..Len(MissingOrder)} |->
        CASE k = "Name" -> "missing Name" [] k = "Tgid" -> "missing Tgid"
          [] k = "Pid" -> "missing Pid" [] k = "PPid" -> "missing PPid"
          [] k = "TracerPid" -> "missing TracerPid" [] k = "Uid" -> "missing Uid"
          [] k = "Gid" -> "missing Gid" [] k = "FDSize" -> "missing FDSize"
          [] k = "Threads" -> "missing Threads"]

AbsentKeys == {i \in 1..Len(MissingOrder) : MissingOrder[i] \notin PresentKeys}

\* C14: when every line of a record parses but one of the keys Name, Tgid,
\* Pid, PPid, TracerPid, Uid, Gid, FDSize, Threads never occurred, parsing
\* fails with the ParsingField error on the status file whose message is
\* 'missing <key>' for the first absent key in that order; it never names
\* a key that was present.
C14_FirstMissingKeyNamed ==
    (StatusParsed /\ statusInput.kind = "keys" /\ AbsentKeys # {}) =>
        statusResult = Err("ParsingField", "PidStatus",
                           MissingMessage[MissingOrder[Min(AbsentKeys)]])

\* C14 witness: a record without Tgid and without Gid was parsed and the
\* error names Tgid.
C14_Witness ==
    /\ StatusParsed
    /\ statusInput.kind = "keys"
    /\ PresentKeys = {"Name", "Pid", "PPid", "TracerPid", "Uid", "FDSize", "Threads"}
    /\ statusResult = Err("ParsingField", "PidStatus", "missing Tgid")

\* C15: a line without ':' makes parsing fail with the hard error "Line
\* missing colon" as soon as the line is reached, whichever keys the other
\* lines hold (also when mandatory keys are absent or a later line is bad);
\* no record is produced.  The line is reached when the lines before it
\* parse: after a line with a bad value the error is that line's.
C15_LineMissingColon ==
    /\ (StatusParsed /\ statusInput.kind = "nocolon") =>
          /\ statusResult = Err("ParsingField", "PidStatus", "Line missing colon")
          /\ IsHard(statusResult.err)
    /\ (StatusParsed /\ statusInput.kind = "badfirst") =>
          statusResult = Err("ParsingField", "PidStatus", "Pid")

\* C15 witness: the record 'Name: a / Name / Pid: x' was parsed and gave
\* "Line missing colon".
C15_Witness ==
    /\ StatusParsed
    /\ statusInput.kind = "nocolon"
    /\ statusInput.lines = <<KeyLine("Name", <<"a">>), RawLine(<<"N", "a", "m", "e">>),
                             BadPidLine>>
    /\ statusResult = Err("ParsingField", "PidStatus", "Line missing colon")

\* C16: when a recognized key occurs on several lines, all with valid
\* values, parsing succeeds and the record holds the value of the last
\* occurrence.
C16_LastWriteWins ==
    (StatusParsed /\ statusInput.kind = "dup") =>
        /\ statusResult.ok
        /\ statusResult.val[statusInput.key]
              = DupValues(KindOf(statusInput.key))[statusInput.at].is

\* C16 witness: VmPeak occurred three times, last as '1 kB', and the record
\* holds 1024.
C16_Witness ==
    /\ StatusParsed
    /\ statusInput.kind = "dup"
    /\ statusInput.key = "VmPeak"
    /\ statusInput.at = 2
    /\ Len(statusInput.lines) = Len(AllBase) + 3
    /\ statusResult.ok
    /\ statusResult.val["VmPeak"] = Some(<<1024, 0, 0, 0>>)

RECURSIVE LimbsDiv10(_, _, _, _)
\* the limbs l divided by ten, from limb i down: quotient and remainder
LimbsDiv10(l, i, rem, acc) ==
    IF i = 0 THEN [quot |-> acc, rem |-> rem]
    ELSE LimbsDiv10(l, i - 1, (rem * LimbBase + l[i]) % 10,
                    <<(rem * LimbBase + l[i]) \div 10>> \o acc)

RECURSIVE U64ToDigits(_, _)
RECURSIVE U64ToDigitsStep(_, _)
\* the decimal digits of a u64 held in limbs
U64ToDigits(l, acc) ==
    IF \A i \in 1..Len(l) : l[i] = 0
    THEN (IF acc = <<>> THEN <<"0">> ELSE acc)
    ELSE U64ToDigitsStep(LimbsDiv10(l, Len(l), 0, <<>>), acc)

U64ToDigitsStep(d, acc) == U64ToDigits(d.quot, <<DigitChar(d.rem)>> \o acc)

RECURSIVE DecTimes(_, _, _, _, _)
\* the decimal digits of ds times m, digit by digit from position i down
DecTimes(ds, i, m, carry, acc) ==
    IF i = 0 THEN StripZeros((IF carry = 0 THEN <<>> ELSE NatToString(carry)) \o acc)
    ELSE DecTimes(ds, i - 1, m, (DigitVal(ds[i]) * m + carry) \div 10,
                  <<DigitChar((DigitVal(ds[i]) * m + carry) % 10)>> \o acc)

\* the number n of the Vm line '<n> kB' of the record
MemNumberOf(input) ==
    SubSeq(Trim(input.lines[input.at].val), 1,
           Len(Trim(input.lines[input.at].val)) - Len(kB))

\* C17: every Vm value of the form '<n> kB' (n a number the MemSize type
\* can read) is stored as exactly n * 1024 bytes, and a Vm key that does
\* not occur is None.
C17_VmValueTimes1024 ==
    (/\ StatusParsed
     /\ statusInput.kind = "mem"
     /\ FitsIn(StripZeros(MemNumberOf(statusInput)), MaxDigits("u64")))
        => /\ statusResult.ok
           /\ statusResult.val[statusInput.key].some
           /\ U64ToDigits(statusResult.val[statusInput.key].val, <<>>)
                 = DecTimes(MemNumberOf(statusInput), Len(MemNumberOf(statusInput)),
                            1024, 0, <<>>)
           /\ \A k \in VmKeys \ {statusInput.key} : statusResult.val[k] = None

\* a token that reads as an unsigned 32-bit integer: digits, at most
\* 4294967295, with an optional '+' before them
U32Digits(tok) == IF tok # <<>> /\ Head(tok) = "+" THEN Tail(tok) ELSE tok

IsU32Text(tok) ==
    /\ U32Digits(tok) # <<>>
    /\ \A i \in 1..Len(U32Digits(tok)) : U32Digits(tok)[i] \in Digits
    /\ FitsIn(StripZeros(U32Digits(tok)),
              <<"4", "2", "9", "4", "9", "6", "7", "2", "9", "5">>)

U32Of(tok) == DigitsValue(StripZeros(U32Digits(tok)), 0)

\* C18: a Uid or Gid value is accepted if and only if it consists of
\* exactly four whitespace-separated tokens that each read as an unsigned
\* 32-bit integer; the result is those four numbers in order.  Otherwise
\* parsing fails with the ParsingField error for that key.
C18_UidsFourNumbers ==
    (StatusParsed /\ statusInput.kind = "uids") =>
        IF /\ Len(statusInput.toks) = 4
           /\ \A i \in 1..4 : IsU32Text(statusInput.toks[i])
        THEN /\ statusResult.ok
             /\ statusResult.val[statusInput.key]
                   = [i \in 1..4 |-> U32Of(statusInput.toks[i])]
        ELSE statusResult = Err("ParsingField", "PidStatus", statusInput.key)

\* C18 witness: a Gid line with five numbers was parsed and rejected with
\* the error for Gid.
C18_Witness ==
    /\ StatusParsed
    /\ statusInput.kind = "uids"
    /\ statusInput.key = "Gid"
    /\ statusInput.toks = << <<"1">>, <<"2">>, <<"3">>, <<"4">>, <<"5">> >>
    /\ statusResult = Err("ParsingField", "PidStatus", "Gid")

(***************************************************************************)
(* Properties of read_cmdline (checked under SpecCmdline).                 *)
(***************************************************************************)
CmdlineRead == cmdlineResult # NotParsed

\* the content less one trailing NUL
LessOneNul(content) ==
    IF content # <<>> /\ content[Len(content)] = NUL
    THEN SubSeq(content, 1, Len(content) - 1) ELSE content

\* C19: the cmdline record is the NUL-split of the content after removing
\* at most one trailing NUL: one argument more than there are NULs left, no
\* argument holding a NUL, and the arguments joined by NUL giving the
\* content less its one trailing NUL back; so 'a\0b\0' yields ['a', 'b'] and
\* every other NUL, a second trailing one included, delimits an argument.
C19_CmdlineNulSplit ==
    (CmdlineRead /\ ValidUtf8(cmdlineInput)) =>
        /\ cmdlineResult.ok
        /\ Len(cmdlineResult.val)
              = Cardinality(Positions(LessOneNul(cmdlineInput), NUL)) + 1
        /\ \A i \in 1..Len(cmdlineResult.val) :
              Positions(cmdlineResult.val[i], NUL) = {}
        /\ Join(cmdlineResult.val, <<NUL>>) = LessOneNul(cmdlineInput)
        /\ cmdlineInput = <<"a", NUL, "b", NUL>>
              => cmdlineResult.val = << <<"a">>, <<"b">> >>

\* C19 witness: the content 'a\0\0' (a second trailing NUL) was read and
\* gave the arguments 'a' and ''.
C19_Witness ==
    /\ CmdlineRead
    /\ cmdlineInput = <<"a", NUL, NUL>>
    /\ cmdlineResult = Ok(<< <<"a">>, <<>> >>)

(***************************************************************************)
(* Properties of the query decoder (checked under SpecQuery).              *)
(***************************************************************************)
QueryDecoded == queryResult # NotParsed

\* the text reads as an integer of the id type: digits with an optional
\* sign, within -2^31 .. 2^31 - 1
IntDigits(t) == IF t # <<>> /\ Head(t) \in {"+", "-"} THEN Tail(t) ELSE t

IsIntText(t) ==
    /\ IntDigits(t) # <<>>
    /\ \A i \in 1..Len(IntDigits(t)) : IntDigits(t)[i] \in Digits
    /\ FitsIn(StripZeros(IntDigits(t)),
              IF Head(t) = "-" THEN <<"2", "1", "4", "7", "4", "8", "3", "6", "4", "8">>
              ELSE <<"2", "1", "4", "7", "4", "8", "3", "6", "4", "7">>)

IntOf(t) ==
    IF Head(t) = "-" THEN 0 - DigitsValue(StripZeros(IntDigits(t)), 0)
    ELSE DigitsValue(StripZeros(IntDigits(t)), 0)

\* the key is the word, letter case aside (word is in lower case)
SameWord(key, word) ==
    /\ Len(key) = Len(word)
    /\ \A i \in 1..Len(key) :
          \/ key[i] = word[i]
          \/ \E j \in 1..Len(LowerCase) : LowerCase[j] = word[i] /\ UpperCase[j] = key[i]

\* what the text before and after the first '=' are
QueryKeyOf(q) == SubSeq(q, 1, Min(Positions(q, "=")) - 1)
QueryValueOf(q) == SubSeq(q, Min(Positions(q, "=")) + 1, Len(q))

\* C20: a bare token that reads as an integer gives an id query, any other
\* bare token a name query on that token; 'key=value' is split at the first
\* '=' and the key compared case-insensitively: pid and ppid need an
\* integer value (an error otherwise), name and cmdline take the value
\* verbatim; any other key gives the error "Invalid query type".
C20_QueryDecoding ==
    QueryDecoded =>
        IF Positions(queryInput, "=") = {}
        THEN IF IsIntText(queryInput)
             THEN queryResult = Ok([type |-> "PidQuery", tid |-> IntOf(queryInput)])
             ELSE queryResult = Ok([type |-> "NameQuery", text |-> queryInput])
        ELSE LET key == QueryKeyOf(queryInput)
                 value == QueryValueOf(queryInput)
             IN  CASE SameWord(key, <<"p", "i", "d">>) ->
                        IF IsIntText(value)
                        THEN queryResult = Ok([type |-> "PidQuery", tid |-> IntOf(value)])
                        ELSE ~queryResult.ok
                   [] SameWord(key, <<"p", "p", "i", "d">>) ->
                        IF IsIntText(value)
                        THEN queryResult = Ok([type |-> "PpidQuery", tid |-> IntOf(value)])
                        ELSE ~queryResult.ok
                   [] SameWord(key, <<"n", "a", "m", "e">>) ->
                        queryResult = Ok([type |-> "NameQuery", text |-> value])
                   [] SameWord(key, <<"c", "m", "d", "l", "i", "n", "e">>) ->
                        queryResult = Ok([type |-> "CmdlineQuery", text |-> value])
                   [] OTHER -> queryResult = QueryErr("Invalid query type")

\* C20 witness: 'pPid=-5' was decoded into the parent query for -5.
C20_Witness ==
    /\ QueryDecoded
    /\ queryInput = <<"p", "P", "i", "d", "=", "-", "5">>
    /\ queryResult = Ok([type |-> "PpidQuery", tid |-> 0 - 5])

(***************************************************************************)
(* Properties of query matching (checked under SpecMatch).                 *)
(***************************************************************************)
\* needle occurs in text: at some offset every character of needle is
\* found in its place
Occurs(needle, text) ==
    \E off \in 0..Len(text) :
        /\ off + Len(needle) <= Len(text)
        /\ \A k \in 1..Len(needle) : text[off + k] = needle[k]

\* the arguments joined by single spaces
RECURSIVE SpaceJoined(_)
SpaceJoined(args) ==
    IF args = <<>> THEN <<>>
    ELSE IF Len(args) = 1 THEN args[1]
    ELSE args[1] \o <<" ">> \o SpaceJoined(Tail(args))

\* C21: an id query matches exactly the records whose stat pid equals it, a
\* parent query exactly those whose stat ppid equals it, a name query those
\* whose stat name contains the text, a cmdline query those whose
\* space-joined arguments contain the text; NoneQuery and the query decoded
\* from the empty string match every record.
C21_QueryMatching ==
    matchResult.some =>
        /\ matchInput.q.type = "PidQuery"
              => matchResult.val = (matchInput.rec.stat.pid = matchInput.q.tid)
        /\ matchInput.q.type = "PpidQuery"
              => matchResult.val = (matchInput.rec.stat.ppid = matchInput.q.tid)
        /\ matchInput.q.type = "NameQuery"
              => matchResult.val = Occurs(matchInput.q.text, matchInput.rec.stat.comm)
        /\ matchInput.q.type = "CmdlineQuery"
              => matchResult.val
                    = Occurs(matchInput.q.text, SpaceJoined(matchInput.rec.cmdline))
        /\ matchInput.q.type = "NoneQuery" => matchResult.val
        /\ matchInput.src = Some(<<>>) => matchResult.val

\* C21 witness: the name query 'a' matched the record named 'b a', where
\* the text is neither the whole name nor its beginning.
C21_Witness ==
    /\ matchResult = Some(TRUE)
    /\ matchInput.q = [type |-> "NameQuery", text |-> <<"a">>]
    /\ matchInput.rec.stat.comm = <<"b", " ", "a">>

(***************************************************************************)
(* Properties of the thread scan (checked under SpecTid).                  *)
(***************************************************************************)
\* the processes the scan handed to tasks_query
TidProcesses == {i \in 1..Len(tidLog) : tidLog[i].kind = "process"}

\* the task directory of the process of tidLog entry i, and the result of
\* building the record of its entry j (a thread)
DirOfLog(i) == taskdirs[listing[tidLog[i].idx].name]

ThreadBuilt(i, j) ==
    new_dir(DirOfLog(i).files, EntryPid(DirOfLog(i).entries[j].name).val)

ThreadEntries(i) ==
    {j \in 1..Len(DirOfLog(i).entries) : DirOfLog(i).entries[j].kind = "ok"}

Yielded(item) == \E k \in 1..Len(out) : out[k].item = item

\* every thread of the process was listed and either built or disappeared
OnlyDisappearances(i) ==
    /\ DirOfLog(i).st = "ok"
    /\ \A j \in 1..Len(DirOfLog(i).entries) : DirOfLog(i).entries[j].kind = "ok"
    /\ \A j \in ThreadEntries(i) :
          ThreadBuilt(i, j).ok \/ ThreadBuilt(i, j).err.operation \in SoftOpers

\* C22: in a thread scan a process or thread that disappears between being
\* listed and being read is skipped: the scan does not abort, no Opening or
\* Reading error is returned, and where nothing but disappearances happened
\* to a process's threads, its other (matching) threads are yielded.
C22_DisappearedSkipped ==
    /\ ~aborted
    /\ \A k \in 1..Len(out) :
          ~out[k].item.ok => out[k].item.err.operation \notin SoftOpers
    /\ exhausted =>
          \A i \in TidProcesses :
              OnlyDisappearances(i) =>
                  \A j \in ThreadEntries(i) :
                      (ThreadBuilt(i, j).ok /\ Satisfies(ThreadBuilt(i, j).val, query))
                          => Yielded(ThreadBuilt(i, j))

\* C23: in a thread scan a hard error while building one thread's record is
\* returned as an error item, and the records of the process's other
\* threads that were built (and match the query) are yielded.
C23_HardThreadErrorReported ==
    (exhausted /\ ~aborted) =>
        \A i \in TidProcesses :
            \A j \in ThreadEntries(i) :
                (~ThreadBuilt(i, j).ok /\ ThreadBuilt(i, j).err.operation \in HardOpers)
                    => /\ Yielded(ThreadBuilt(i, j))
                       /\ \A m \in ThreadEntries(i) \ {j} :
                             (ThreadBuilt(i, m).ok
                                /\ Satisfies(ThreadBuilt(i, m).val, query))
                                 => Yielded(ThreadBuilt(i, m))

\* C27: every record produced for a thread is marked as a thread, and
\* asking it for its tasks returns None without listing a task directory.
C27_ThreadsMarked ==
    /\ \A k \in 1..Len(out) : out[k].item.ok => out[k].item.val.is_thread
    /\ \A i \in 1..Len(tidLog) :
          tidLog[i].kind = "thread" =>
              /\ ~tidLog[i].tasks.panic
              /\ ~tidLog[i].tasks.val.some
              /\ ~tidLog[i].tasks.listed

(***************************************************************************)
(* Properties of the memory summary (checked under SpecMem).               *)
(***************************************************************************)
MemRead == memResult.some

\* the report is one the parser accepts: every line 'Key: <u64>' and every
\* consumed key present
MemAccepted == memInput.kind \in {"main", "cache", "swap", "dup"}

\* a + b = c in the integers (no carry out of 64 bits)
ExactSum(a, b, c) ==
    /\ LimbsAdd(a, b, 1, 0, <<>>).carry = 0
    /\ LimbsAdd(a, b, 1, 0, <<>>).limbs = c

\* a + b + c + d = e in the integers
ExactSum4(a, b, c, d, e) ==
    /\ LimbsAdd(a, b, 1, 0, <<>>).carry = 0
    /\ LimbsAdd(LimbsAdd(a, b, 1, 0, <<>>).limbs, c, 1, 0, <<>>).carry = 0
    /\ ExactSum(LimbsAdd(LimbsAdd(a, b, 1, 0, <<>>).limbs, c, 1, 0, <<>>).limbs, d, e)

\* the fields of the summary are the numbers of the report
MemTranscribed(m) ==
    \A i \in 1..Len(ReportNames) :
        ReportNames[i] \in DOMAIN memInput.vals
            => U64ToDigits(m[MemFields[i].field], <<>>) = memInput.vals[ReportNames[i]]

\* C24: for every report the parser accepts, whatever the relation of its
\* numbers, a summary is returned whose 'used memory' is MemTotal - MemFree
\* - Cached - Buffers and whose 'swap used' is SwapTotal - SwapFree, as
\* integers: nothing wraps and nothing aborts.
C24_UsedAndSwapUsed ==
    (MemRead /\ MemAccepted) =>
        /\ memResult.val.ok
        /\ MemTranscribed(memResult.val.val)
        /\ ExactSum4(memResult.val.val.mainused, memResult.val.val.memfree,
                     memResult.val.val.cached, memResult.val.val.buffers,
                     memResult.val.val.memtotal)
        /\ ExactSum(memResult.val.val.mainswapused, memResult.val.val.swapfree,
                    memResult.val.val.swaptotal)

C26_MissingKeyIsError ==
    (MemRead /\ memInput.kind = "missing") =>
        /\ ~memResult.val.ok
        /\ ~memResult.val.panic
        /\ memResult.val.err = memInput.skip

(***************************************************************************)
(* Further properties of the scan (checked under Spec).                    *)
(***************************************************************************)
\* the error items next() has returned
ErrorItems == {k \in 1..Len(out) : ~out[k].item.ok}

\* C28: every error item PidIter yields is a hard error: no Opening or
\* Reading error, a failure to read an entry of the listing included, is
\* returned by next().
C28_OnlyHardErrorItems ==
    \A k \in ErrorItems : IsHard(out[k].item.err)

\* C28 as amended: an error item PidIter yields is a hard error, or it is
\* the Reading error of the listing itself (file ProcDir) for an entry
\* read_dir failed to read; no Opening or Reading error of a process's own
\* files is returned.
C28_Amended ==
    \A k \in ErrorItems :
        \/ IsHard(out[k].item.err)
        \/ /\ out[k].item.err = ProcError("Reading", "ProcDir", "PidIter")
           /\ listing[out[k].idx].kind = "ioerr"

\* C28 witness: the scan returned the Reading error of an unreadable entry
\* and the hard error of a process with a malformed file.
C28_Witness ==
    /\ \E k \in ErrorItems : out[k].item.err.operation = "Reading"
    /\ \E k \in ErrorItems :
          /\ IsHard(out[k].item.err)
          /\ out[k].item.err.file \in {"PidStat", "PidStatus", "PidCmdline"}

(***************************************************************************)
(* A further property of the status parser (checked under SpecStatus).     *)
(***************************************************************************)
\* C29: for every Vm value whose number reads as an unsigned 64-bit
\* integer, parsing returns exactly the number times 1024 or fails with a
\* ParsingField error: the product never wraps modulo 2^64 and the program
\* never aborts.
C29_VmNeverWrapsOrAborts ==
    (/\ StatusParsed
     /\ statusInput.kind = "mem"
     /\ FitsIn(StripZeros(MemNumberOf(statusInput)), MaxDigits("u64")))
        => /\ statusResult # Panicked
           /\ ~statusResult.ok => statusResult.err.operation = "ParsingField"
           /\ statusResult.ok =>
                 /\ statusResult.val[statusInput.key].some
                 /\ U64ToDigits(statusResult.val[statusInput.key].val, <<>>)
                       = DecTimes(MemNumberOf(statusInput),
                                  Len(MemNumberOf(statusInput)), 1024, 0, <<>>)

(***************************************************************************)
(* Properties of the process tree (checked under SpecTree).                *)
(***************************************************************************)
TreePrinted == treeResult.some

\* how many times a record occurs in a list
Occurrences(list, r) == Cardinality({k \in 1..Len(list) : list[k] = r})

\* C30: for any list of records, parents missing from the list and cycles
\* of parents included, treeify_names returns every record of the list
\* exactly once, the indent of each returned record is found, and so no
\* record of the list is missing from the rows of the tree.
C30_TreeKeepsEveryRecord ==
    TreePrinted =>
        /\ ~treeResult.val.panicked
        /\ \A r \in TreeRecords :
              Occurrences(treeResult.val.pids, r) = Occurrences(treeInput, r)
        /\ Len(treeResult.val.rows) = Len(treeInput)

=============================================================================
